---- MODULE Spec2Model ----
(***************************************************************************)
(* Workflow orchestration engine of the alert triage system                *)
(* (src/src/agents/orchestrator.py): workflow instances, step readiness,    *)
(* task assignment, completion and failure handling, retry with backoff,    *)
(* pause / resume / cancel.  Workers are the task executors that answer     *)
(* each assignment with a completion or a failure report.                   *)
(***************************************************************************)
EXTENDS Integers, Sequences, FiniteSets, TLC

(***************************************************************************)
(* Bounds of the model                                                      *)
(***************************************************************************)
MaxWorkflows == 1      \* workflow instances created in one run
MaxTasks == 6          \* task ids that can be referenced at the same time
MaxQueue == 1          \* envelopes waiting in the orchestrator's mailbox
MaxControl == 2        \* pause / resume / cancel commands issued in one run
SendCap == 5           \* the per-step dispatch counter saturates here
RetryCap == 3          \* the per-step retry counter saturates here
MailboxCap == 2        \* max_queue_size of the agents of the registry scenarios
MaxRoutes == 3         \* envelopes handed to the registry's route_message in one run
MaxUuids == 4          \* values of uuid4 drawn for the envelopes callers build
MaxJobs == 3           \* tasks an executor is asked to execute in one run
MaxInstances == 2      \* values of uuid4 drawn for workflow instances

WfIds == 1..MaxWorkflows

InstanceIds == 1..MaxInstances
TaskIds == 1..MaxTasks

Min(a, b) == IF a <= b THEN a ELSE b

RECURSIVE Pow2(_)
Pow2(n) == IF n <= 0 THEN 1 ELSE 2 * Pow2(n - 1)

(***************************************************************************)
(* Enumerations.  WorkflowState, and the two enumerations that are used for *)
(* a task's status: TaskStatus (set by _assign_agent_task) and AgentStatus  *)
(* (set and compared everywhere else).  Members of different Enum classes   *)
(* are never equal in Python, also when their values are the same string.   *)
(***************************************************************************)
WorkflowState == {"pending", "running", "paused", "completed", "failed", "cancelled"}

TaskStatus_PENDING == "TaskStatus.PENDING"
TaskStatus_RUNNING == "TaskStatus.RUNNING"
TaskStatus_COMPLETED == "TaskStatus.COMPLETED"
TaskStatus_FAILED == "TaskStatus.FAILED"
TaskStatus_CANCELLED == "TaskStatus.CANCELLED"
AgentStatus_PENDING == "AgentStatus.PENDING"
AgentStatus_RUNNING == "AgentStatus.RUNNING"
AgentStatus_COMPLETED == "AgentStatus.COMPLETED"
AgentStatus_FAILED == "AgentStatus.FAILED"
AgentStatus_CANCELLED == "AgentStatus.CANCELLED"

(***************************************************************************)
(* Workflow definitions                                                     *)
(***************************************************************************)
WorkflowStep(id, agent, deps) ==
    [step_id |-> id, agent_type |-> agent, dependencies |-> deps]

WorkflowDefinition(steps, mps, mr, rd, eb) ==
    [steps |-> steps, max_parallel_steps |-> mps,
     retry_policy |-> [max_retries |-> mr, retry_delay |-> rd,
                       exponential_backoff |-> eb]]

\* the definition installed by the constructor
alert_triage_workflow ==
    WorkflowDefinition(
        << WorkflowStep("alert_reception", "alert_receiver_ai", <<>>),
           WorkflowStep("false_positive_check", "false_positive_checker_ai",
                        <<"alert_reception">>),
           WorkflowStep("severity_analysis", "severity_analyzer_ai",
                        <<"false_positive_check">>),
           WorkflowStep("context_gathering", "context_gatherer_ai",
                        <<"severity_analysis">>),
           WorkflowStep("response_coordination", "response_coordinator_ai",
                        <<"context_gathering">>) >>,
        2, 3, 5, TRUE)

\* A -> B -> C, one step at a time
linear3_workflow ==
    WorkflowDefinition(
        << WorkflowStep("A", "worker_a", <<>>),
           WorkflowStep("B", "worker_b", <<"A">>),
           WorkflowStep("C", "worker_c", <<"B">>) >>,
        1, 3, 1, TRUE)

\* A and B independent, C after both; no retries
fork_workflow ==
    WorkflowDefinition(
        << WorkflowStep("A", "worker_a", <<>>),
           WorkflowStep("B", "worker_b", <<>>),
           WorkflowStep("C", "worker_c", <<"A", "B">>) >>,
        2, 0, 2, FALSE)

\* the dependent step is listed before the step it depends on
reordered_workflow ==
    WorkflowDefinition(
        << WorkflowStep("B", "worker_b", <<"A">>),
           WorkflowStep("A", "worker_a", <<>>) >>,
        1, 3, 3, FALSE)

workflow_definitions ==
    ("alert_triage" :> alert_triage_workflow) @@
    ("linear3" :> linear3_workflow) @@
    ("fork" :> fork_workflow) @@
    ("reordered" :> reordered_workflow)

WorkflowTypes == DOMAIN workflow_definitions

\* the workflow types a start request may name
RequestTypes == WorkflowTypes \cup {"no_such_workflow"}

StepIdsOf(def) == {def.steps[i].step_id : i \in 1..Len(def.steps)}

AllStepIds == UNION {StepIdsOf(workflow_definitions[t]) : t \in WorkflowTypes}

StepOf(def, sid) ==
    def.steps[CHOOSE i \in 1..Len(def.steps) : def.steps[i].step_id = sid]

(***************************************************************************)
(* Dictionaries (context, task result) are sets of <<key, value>> pairs     *)
(* with one pair per key.                                                   *)
(***************************************************************************)
Keys(m) == {p[1] : p \in m}

\* a dict.update that loses the new entries
DictUpdateNoMerge(m, r) == m

\* dict.update: the keys of r overwrite those of m
DictUpdate(m, r) == {p \in m : p[1] \notin Keys(r)} \cup r

\* contexts a start request may carry
StartContexts == { {}, {<<"alert_id", "a1">>, <<"verdict", "initial">>} }

\* results a worker may report for a step
ResultsOf(sid) == { {<<sid, "done">>, <<"verdict", sid>>} }

(***************************************************************************)
(* State                                                                    *)
(***************************************************************************)
VARIABLES
    active_workflows,   \* OrchestratorAgent.active_workflows: id -> WorkflowExecution
    message_queue,      \* the orchestrator's mailbox (CoralAgent.message_queue)
    assigned,           \* task assignments routed to workers and not yet answered
    sleeping,           \* <<>> or <<r>>: _handle_task_retry suspended in asyncio.sleep
    control_count,      \* pause / resume / cancel commands issued so far
    last_sent,          \* the assignments sent by the most recent handler run
    send_count,         \* assignments sent per instance and step (saturating)
    retries_started,    \* retries begun per instance and failed step (saturating)
    counting,           \* whether send_count, retries_started and response
                        \* are maintained in this run
    response,           \* payload status of the reply of the last handler run
    registry,           \* the CoralRegistry: agents, agent_metadata,
                        \* capabilities_index, agent_capabilities,
                        \* message_history and the two counters
    agent_status,       \* CoralAgent.status of every agent object
    mailbox,            \* CoralAgent.message_queue of every agent object
    registry_result,    \* what the most recent registry call returned or raised
    uuids,              \* how many values uuid.uuid4 has returned
    handled,            \* per agent object, the envelopes whose handling began
    error_count,        \* CoralAgent.error_count of every agent object
    processed_messages, \* CoralAgent.processed_messages of every agent object
    loop,               \* per agent object, whether process_messages runs
    shutdown_pc,        \* per agent object, the position of shutdown()
    last_call,          \* the most recent runtime call and what it did
    task_queue,         \* TaskExecutorBase.task_queue (task ids)
    current_tasks,      \* the keys of TaskExecutorBase.current_tasks
    executions,         \* the _execute_task coroutines created and not ended
    task_status,        \* AgentTask.status of every task the executor got
    started,            \* the tasks _process_next_task took, in that order
    cancelled_queued    \* the tasks cancelled while they were only queued

orchestrator_vars == << active_workflows, message_queue, assigned, sleeping,
                        control_count, last_sent, send_count, retries_started,
                        counting, response >>

registry_vars == << registry, agent_status, mailbox, registry_result >>

worker_vars == << uuids, handled, error_count, processed_messages, loop,
                  shutdown_pc, last_call >>

executor_vars == << task_queue, current_tasks, executions, task_status,
                    started, cancelled_queued >>

runtime_vars == << worker_vars, executor_vars >>

vars == << active_workflows, message_queue, assigned, sleeping, control_count,
           last_sent, send_count, retries_started, counting, response,
           registry, agent_status, mailbox, registry_result,
           uuids, handled, error_count, processed_messages, loop, shutdown_pc,
           last_call, task_queue, current_tasks, executions, task_status,
           started, cancelled_queued >>

EmptyDict == [x \in {} |-> 0]

Envelope(mt, wt, ctx, wid, tid, res) ==
    [message_type |-> mt, workflow_type |-> wt, context |-> ctx,
     workflow_id |-> wid, task_id |-> tid, result |-> res]

AgentTask(tid, agent) ==
    [task_id |-> tid, agent_id |-> agent, status |-> TaskStatus_PENDING,
     retry_count |-> 0, retry_delay |-> 0, result |-> {}]

\* task ids referenced anywhere; uuid4 never returns one of them
UsedTaskIds ==
    {a.task_id : a \in assigned}
    \cup {message_queue[i].task_id : i \in 1..Len(message_queue)}
    \cup UNION {{active_workflows[w].agent_tasks[s].task_id :
                    s \in DOMAIN active_workflows[w].agent_tasks} :
                w \in DOMAIN active_workflows}
    \cup {sleeping[i].task_id : i \in 1..Len(sleeping)}

RECURSIVE SetToSortedSeq(_)
SetToSortedSeq(S) ==
    IF S = {} THEN <<>>
    ELSE LET m == CHOOSE x \in S : \A y \in S : x <= y
         IN <<m>> \o SetToSortedSeq(S \ {m})

\* the unused task ids, smallest first
FreshTaskIds == SetToSortedSeq(TaskIds \ UsedTaskIds)

(***************************************************************************)
(* The registry (src/src/coral_protocol/registry.py) and the agents it      *)
(* knows.  An agent object has an id, a list of capability names, a status  *)
(* and a mailbox; two objects may carry the same id.                        *)
(***************************************************************************)
AgentObject(id, caps) ==
    [agent_id |-> id, capabilities |-> caps, max_queue_size |-> MailboxCap]

\* the agent objects: the workers of the workflow definitions, and a second
\* object that carries the id of worker_a
agent_pool ==
    << AgentObject("worker_a", <<"execute_task">>),
       AgentObject("worker_b", <<"execute_task", "gather_context">>),
       AgentObject("worker_a", <<"gather_context">>),
       AgentObject("worker_c", <<"execute_task">>),
       AgentObject("alert_receiver_ai", <<"execute_task">>),
       AgentObject("false_positive_checker_ai", <<"execute_task">>),
       AgentObject("severity_analyzer_ai", <<"execute_task">>),
       AgentObject("context_gatherer_ai", <<"execute_task">>),
       AgentObject("response_coordinator_ai", <<"execute_task">>) >>

AgentObjects == 1..Len(agent_pool)

\* the objects the registry scenarios register, unregister and route to
RegistryObjects == {o \in AgentObjects :
                       agent_pool[o].agent_id \in {"worker_a", "worker_b"}}

\* the objects OrchestratedAlertTriageSystem.initialize registers: one per id
SystemObjects == {o \in AgentObjects :
                     \A q \in AgentObjects :
                         agent_pool[q].agent_id = agent_pool[o].agent_id => o <= q}

AgentIds == {agent_pool[o].agent_id : o \in AgentObjects}

Capabilities == {"execute_task", "gather_context", "normalize_alert"}

\* the values of CoralAgent.status
AgentStatuses == {"online", "offline", "busy", "error"}

max_message_history == 1000

\* CoralRegistry.__init__
CoralRegistry ==
    [agents |-> EmptyDict,
     agent_metadata |-> EmptyDict,
     capabilities_index |-> EmptyDict,
     agent_capabilities |-> EmptyDict,
     message_history |-> EmptyDict,
     total_messages_routed |-> 0,
     failed_message_count |-> 0]

\* del d[k]
DictDelete(d, k) == [x \in DOMAIN d \ {k} |-> d[x]]

\* list.remove(x): the first occurrence of x
ListRemove(l, x) ==
    LET i == CHOOSE i \in 1..Len(l) : l[i] = x /\ \A j \in 1..(i - 1) : l[j] # x
    IN SubSeq(l, 1, i - 1) \o SubSeq(l, i + 1, Len(l))

\* the loop that indexes the capabilities of a registering agent
RECURSIVE index_capabilities(_, _, _)
index_capabilities(index, caps, agent_id) ==
    IF caps = <<>> THEN index
    ELSE LET c == Head(caps)
             entry == IF c \in DOMAIN index THEN index[c] ELSE <<>>
         IN index_capabilities(
                (c :> Append(entry, agent_id)) @@ index, Tail(caps), agent_id)

\* the loop that removes an unregistering agent from the index
RECURSIVE unindex_capabilities(_, _, _)
unindex_capabilities(index, caps, agent_id) ==
    IF caps = <<>> THEN index
    ELSE LET c == Head(caps)
             entry == IF c \in DOMAIN index THEN index[c] ELSE <<>>
             removed == IF agent_id \in {entry[i] : i \in 1..Len(entry)}
                        THEN ListRemove(entry, agent_id) ELSE entry
         IN unindex_capabilities((c :> removed) @@ index, Tail(caps), agent_id)

\* a register_agent that does not look for the id in the agent table
register_agent_overwrite(reg, o) ==
    LET agent == agent_pool[o]
    IN [registry |->
           [reg EXCEPT
               !.agents = (agent.agent_id :> o) @@ @,
               !.agent_metadata = (agent.agent_id :> agent.capabilities) @@ @,
               !.capabilities_index =
                   index_capabilities(@, agent.capabilities, agent.agent_id),
               !.agent_capabilities =
                   (agent.agent_id :> agent.capabilities) @@ @],
        raised |-> "none"]

\* register_agent: the registry afterwards and the exception raised
register_agent(reg, o) ==
    LET agent == agent_pool[o]
    IN IF agent.agent_id \in DOMAIN reg.agents
       THEN [registry |-> reg, raised |-> "AgentRegistrationError"]
       ELSE [registry |->
                [reg EXCEPT
                    !.agents = (agent.agent_id :> o) @@ @,
                    !.agent_metadata = (agent.agent_id :> agent.capabilities) @@ @,
                    !.capabilities_index =
                        index_capabilities(@, agent.capabilities, agent.agent_id),
                    !.agent_capabilities =
                        (agent.agent_id :> agent.capabilities) @@ @],
             raised |-> "none"]

\* an unregister_agent that leaves the capability index alone
unregister_agent_keep_index(reg, agent_id) ==
    IF agent_id \notin DOMAIN reg.agents
    THEN [registry |-> reg, raised |-> "AgentNotFoundError"]
    ELSE [registry |->
             [reg EXCEPT
                 !.agents = DictDelete(@, agent_id),
                 !.agent_metadata = DictDelete(@, agent_id),
                 !.agent_capabilities = DictDelete(@, agent_id)],
          raised |-> "none"]

\* unregister_agent
unregister_agent(reg, agent_id) ==
    IF agent_id \notin DOMAIN reg.agents
    THEN [registry |-> reg, raised |-> "AgentNotFoundError"]
    ELSE [registry |->
             [reg EXCEPT
                 !.capabilities_index =
                     unindex_capabilities(@, reg.agent_capabilities[agent_id], agent_id),
                 !.agents = DictDelete(@, agent_id),
                 !.agent_metadata = DictDelete(@, agent_id),
                 !.agent_capabilities = DictDelete(@, agent_id)],
          raised |-> "none"]

\* the intersection discover_agents accumulates in capable_agents
RECURSIVE capable_agents(_, _)
capable_agents(index, required) ==
    LET with_capability == {index[Head(required)][i] :
                               i \in 1..Len(index[Head(required)])}
    IN IF Len(required) = 1 THEN with_capability
       ELSE with_capability \cap capable_agents(index, Tail(required))

\* discover_agents: the ids returned (as a set) and the exception raised
discover_agents(reg, status, required, exclude) ==
    IF required = <<>>
    THEN [value |-> DOMAIN reg.agents, raised |-> "none"]
    ELSE IF \E i \in 1..Len(required) : required[i] \notin DOMAIN reg.capabilities_index
         THEN [value |-> {}, raised |-> "CapabilityNotFoundError"]
         ELSE [value |-> {agent_id \in capable_agents(reg.capabilities_index, required) :
                             /\ agent_id \notin exclude
                             /\ agent_id \in DOMAIN reg.agents
                             /\ status[reg.agents[agent_id]] = "online"},
               raised |-> "none"]

\* _track_message_in_workflow: the audit entry, and the history size limit
track_message_in_workflow(history, message) ==
    LET thread == IF message.thread_id \in DOMAIN history
                  THEN history[message.thread_id] ELSE <<>>
        appended == Append(thread, message.id)
    IN (message.thread_id :>
            IF Len(appended) > max_message_history THEN Tail(appended) ELSE appended)
       @@ history

\* a route_message that does not look at the receiver's status
route_target_any_status(reg, status, receiver_id) ==
    IF receiver_id \notin DOMAIN reg.agents THEN "Target agent not found"
    ELSE "none"

\* the checks route_message makes before it delivers: "none" when the
\* receiver is registered and online
route_target(reg, status, receiver_id) ==
    IF receiver_id \notin DOMAIN reg.agents THEN "Target agent not found"
    ELSE IF status[reg.agents[receiver_id]] # "online"
         THEN "Target agent is not online"
         ELSE "none"

\* a fullness test that lets one envelope too many in
queue_full_late(boxes, o) == Len(boxes[o]) > agent_pool[o].max_queue_size

\* asyncio.Queue.full() of the mailbox of agent object o
queue_full(boxes, o) == Len(boxes[o]) >= agent_pool[o].max_queue_size

\* a mailbox that hands out the newest envelope first
receive_message_front(boxes, o, message) ==
    IF queue_full(boxes, o)
    THEN [mailbox |-> boxes, raised |-> "AgentBusyError"]
    ELSE [mailbox |-> [boxes EXCEPT ![o] = << message >> \o @], raised |-> "none"]

\* CoralAgent.receive_message: the mailboxes afterwards and the exception raised
receive_message(boxes, o, message) ==
    IF queue_full(boxes, o)
    THEN [mailbox |-> boxes, raised |-> "AgentBusyError"]
    ELSE [mailbox |-> [boxes EXCEPT ![o] = Append(@, message)], raised |-> "none"]

(***************************************************************************)
(* Envelopes.  An id is a string, modelled as a sequence: <<>> is the empty *)
(* string, <<n>> the n-th value of uuid.uuid4, and \o is concatenation.     *)
(***************************************************************************)
NoId == <<>>

\* str(uuid.uuid4()) when n values were returned before
uuid4(n) == << n + 1 >>

\* the values __post_init__ draws for an envelope built with id and thread_id
drawn(id, thread_id) ==
    (IF id = NoId THEN 1 ELSE 0) + (IF thread_id = NoId THEN 1 ELSE 0)

\* CoralMessage(...): the dataclass and its __post_init__, when n values of
\* uuid4 were returned before
CoralMessage(id, sender_id, receiver_id, message_type, thread_id, payload, reply_to, correlation_id, n) ==
    [id |-> IF id = NoId THEN uuid4(n) ELSE id,
     sender_id |-> sender_id,
     receiver_id |-> receiver_id,
     message_type |-> message_type,
     thread_id |-> IF thread_id = NoId
                   THEN uuid4(n + (IF id = NoId THEN 1 ELSE 0)) ELSE thread_id,
     payload |-> payload,
     reply_to |-> reply_to,
     correlation_id |-> correlation_id]

\* the default of create_reply's message_type argument
None == "None"

\* a reply that takes the id of the original
create_reply_same_id(message, sender_id, payload, message_type, n) ==
    CoralMessage(message.id, sender_id, message.sender_id,
                 IF message_type = None THEN message.message_type
                 ELSE message_type,
                 message.thread_id, payload, message.id,
                 message.correlation_id, n + 1)

\* CoralMessage.create_reply: message_type or self.message_type
create_reply(message, sender_id, payload, message_type, n) ==
    CoralMessage(uuid4(n), sender_id, message.sender_id,
                 IF message_type = None THEN message.message_type
                 ELSE message_type,
                 message.thread_id, payload, message.id,
                 message.correlation_id, n + 1)

\* the registry, the mailboxes and the agents' error counters together
Net(reg, boxes, errors) == [registry |-> reg, mailbox |-> boxes, errors |-> errors]

\* CoralRegistry.route_message: what it leaves behind, and the cause of the
\* MessageRoutingError it raised ("none" when it delivered)
route(net, status, message) ==
    LET target == route_target(net.registry, status, message.receiver_id)
        o == net.registry.agents[message.receiver_id]
        delivery == receive_message(net.mailbox, o, message)
        cause == IF target # "none" THEN target ELSE delivery.raised
    IN [net |->
           Net([net.registry EXCEPT
                   !.message_history =
                       IF target = "none"
                       THEN track_message_in_workflow(@, message) ELSE @,
                   !.total_messages_routed = IF cause = "none" THEN @ + 1 ELSE @,
                   !.failed_message_count = IF cause = "none" THEN @ ELSE @ + 1],
               IF target = "none" THEN delivery.mailbox ELSE net.mailbox,
               IF target = "none" /\ delivery.raised # "none"
               THEN [net.errors EXCEPT ![o] = @ + 1] ELSE net.errors),
        cause |-> cause]

\* CoralAgent.send_message of agent object o: a routing failure is counted
\* by the sender and raised again
send_message(net, status, o, message) ==
    LET r == route(net, status, message)
    IN [net |-> IF r.cause = "none" THEN r.net
                ELSE Net(r.net.registry, r.net.mailbox,
                         [r.net.errors EXCEPT ![o] = @ + 1]),
        cause |-> r.cause]

\* CoralAgent._process_single_message of agent object o, when n values of
\* uuid4 were returned before: the error reply of a handler that raised, and
\* whether the failure to send it leaves the method as an exception
process_single_message(net, status, o, message, handler_raises, n) ==
    IF ~ handler_raises
    THEN [net |-> net, reply |-> [id |-> 0], cause |-> "none",
          propagates |-> FALSE, drawn |-> 0]
    ELSE LET reply == create_reply(message, agent_pool[o].agent_id,
                                   "error", "error", n)
             sent == send_message(net, status, o, reply)
         IN [net |-> sent.net, reply |-> reply, cause |-> sent.cause,
             propagates |-> sent.cause # "none", drawn |-> 1]

\* a processing loop that an exception ends
loop_after_stops(propagates) == IF propagates THEN "stopped" ELSE "running"

\* process_messages after _process_single_message: except Exception counts
\* the error and the while loop goes on
loop_after(propagates) == "running"

\* the copy broadcast_message builds for target agent_id
broadcast_copy(message, agent_id) ==
    CoralMessage(message.id \o << agent_id >>, message.sender_id, agent_id,
                 message.message_type, message.thread_id, message.payload,
                 NoId, NoId, 0)

\* a fan-out that ends at the first target that cannot be reached
RECURSIVE broadcast_message_abort(_, _, _, _)
broadcast_message_abort(net, status, message, target_agents) ==
    IF target_agents = <<>> THEN net
    ELSE LET r == route(net, status, broadcast_copy(message, Head(target_agents)))
         IN IF r.cause # "none" THEN r.net
            ELSE broadcast_message_abort(r.net, status, message, Tail(target_agents))

\* the loop of broadcast_message over target_agents
RECURSIVE broadcast_message(_, _, _, _)
broadcast_message(net, status, message, target_agents) ==
    IF target_agents = <<>> THEN net
    ELSE broadcast_message(
             route(net, status, broadcast_copy(message, Head(target_agents))).net,
             status, message, Tail(target_agents))

\* the orders in which a list built from the ids in S can hold them
Orders(S) ==
    {q \in [1..Cardinality(S) -> S] :
        \A i, j \in 1..Cardinality(S) : q[i] = q[j] => i = j}

RECURSIVE register_all(_, _)
register_all(reg, objects) ==
    IF objects = <<>> THEN reg
    ELSE register_all(register_agent(reg, Head(objects)).registry, Tail(objects))

\* the record of a registry call: the operation, its arguments, the value
\* returned and the exception raised ("none" when it returned); cause is the
\* exception route_message wraps in its MessageRoutingError
Result(op, o, agent_id, required, exclude, value, raised, cause) ==
    [op |-> op, agent |-> o, agent_id |-> agent_id, required |-> required,
     exclude |-> exclude, value |-> value, raised |-> raised, cause |-> cause]

NoResult == Result("none", 0, "", <<>>, {}, {}, "none", "none")

(***************************************************************************)
(* Readiness                                                                *)
(***************************************************************************)
is_step_completed(workflow, step_id) ==
    IF step_id \notin DOMAIN workflow.agent_tasks THEN FALSE
    ELSE workflow.agent_tasks[step_id].status = AgentStatus_COMPLETED

is_step_ready(workflow, step) ==
    IF \E i \in 1..Len(step.dependencies) :
           ~ is_step_completed(workflow, step.dependencies[i])
    THEN FALSE
    ELSE IF step.step_id \in DOMAIN workflow.agent_tasks
            /\ workflow.agent_tasks[step.step_id].status
                   \in {AgentStatus_RUNNING, AgentStatus_COMPLETED}
         THEN FALSE
         ELSE TRUE

get_next_executable_steps(workflow) ==
    SelectSeq(workflow.workflow_definition.steps,
              LAMBDA step : is_step_ready(workflow, step))

(***************************************************************************)
(* Dispatch                                                                 *)
(***************************************************************************)
Assignment(wid, step, tid) ==
    [task_id |-> tid, workflow_id |-> wid, step_id |-> step.step_id,
     receiver_id |-> step.agent_type]

\* _assign_agent_task: a new task replaces the step's entry in agent_tasks
assign_agent_task(workflow, step, tid) ==
    [workflow EXCEPT !.agent_tasks =
        (step.step_id :> AgentTask(tid, step.agent_type)) @@ @]

\* send_message of a task assignment: route_message and receive_message let
\* it through
Routable(receiver_id) ==
    /\ route_target(registry, agent_status, receiver_id) = "none"
    /\ ~ queue_full(mailbox, registry.agents[receiver_id])

\* the loop over steps_to_execute; the MessageRoutingError of an assignment
\* that cannot be routed ends it, after the task was stored
RECURSIVE assign_all(_, _, _, _)
assign_all(workflow, wid, steps, ids) ==
    IF steps = <<>> THEN [workflow |-> workflow, sent |-> <<>>, raised |-> FALSE]
    ELSE IF ~ Routable(Head(steps).agent_type)
         THEN [workflow |-> assign_agent_task(workflow, Head(steps), Head(ids)),
               sent |-> <<>>, raised |-> TRUE]
         ELSE LET rest == assign_all(
                              assign_agent_task(workflow, Head(steps), Head(ids)),
                              wid, Tail(steps), Tail(ids))
              IN [workflow |-> rest.workflow,
                  sent |-> <<Assignment(wid, Head(steps), Head(ids))>> \o rest.sent,
                  raised |-> rest.raised]

steps_to_execute(workflow) ==
    LET next_steps == get_next_executable_steps(workflow)
    IN SubSeq(next_steps, 1,
              Min(workflow.workflow_definition.max_parallel_steps, Len(next_steps)))

\* _execute_workflow_step: the new WorkflowExecution and the assignments sent
execute_workflow_step(workflow, wid, ids) ==
    IF workflow.status # "running"
    THEN [workflow |-> workflow, sent |-> <<>>, raised |-> FALSE]
    ELSE IF get_next_executable_steps(workflow) = <<>>
         THEN [workflow |-> [workflow EXCEPT !.status = "completed"],
               sent |-> <<>>, raised |-> FALSE]
         ELSE assign_all(workflow, wid, steps_to_execute(workflow), ids)

\* number of fresh task ids a run of _execute_workflow_step needs
ids_needed(workflow) ==
    IF workflow.status # "running" THEN 0 ELSE Len(steps_to_execute(workflow))

SeqToSet(q) == {q[i] : i \in 1..Len(q)}

Bump(cnt, sent, cap) ==
    IF ~ counting THEN cnt ELSE
    [w \in InstanceIds |-> [s \in AllStepIds |->
        Min(cap, cnt[w][s]
                 + Cardinality({i \in 1..Len(sent) :
                                   sent[i].workflow_id = w /\ sent[i].step_id = s}))]]

\* the reply of a handler run, kept while counting
Respond(status) == response' = IF counting THEN status ELSE response

\* the bookkeeping common to every handler run that sends `sent`
Send(sent) ==
    /\ assigned' = assigned \cup SeqToSet(sent)
    /\ last_sent' = sent
    /\ send_count' = Bump(send_count, sent, SendCap)

(***************************************************************************)
(* Initial state: the orchestrator after construction                       *)
(***************************************************************************)
\* the record of a runtime call: the operation, the agent object, the
\* envelope it was about, the reply it built, whether the handler raised and
\* why the reply could not be sent ("none" when it was, or when there was none)
Call(op, o, message, reply, raised, cause) ==
    [op |-> op, agent |-> o, message |-> message, reply |-> reply,
     raised |-> raised, cause |-> cause]

NoMessage == [id |-> 0]

NoCall == Call("none", 0, NoMessage, NoMessage, FALSE, "none")

\* CoralAgent.__init__ and TaskExecutorBase.__init__ of every agent object
Constructed ==
    /\ uuids = 0
    /\ handled = [o \in AgentObjects |-> <<>>]
    /\ error_count = [o \in AgentObjects |-> 0]
    /\ processed_messages = [o \in AgentObjects |-> 0]
    /\ loop = [o \in AgentObjects |-> "not started"]
    /\ shutdown_pc = [o \in AgentObjects |-> "not called"]
    /\ last_call = NoCall
    /\ task_queue = <<>>
    /\ current_tasks = {}
    /\ executions = {}
    /\ task_status = EmptyDict
    /\ started = <<>>
    /\ cancelled_queued = {}

Quiet ==
    /\ active_workflows = EmptyDict
    /\ message_queue = <<>>
    /\ assigned = {}
    /\ sleeping = <<>>
    /\ control_count = 0
    /\ last_sent = <<>>
    /\ send_count = [w \in InstanceIds |-> [s \in AllStepIds |-> 0]]
    /\ retries_started = [w \in InstanceIds |-> [s \in AllStepIds |-> 0]]
    /\ response = ""
    /\ Constructed

\* the registry and the agents after OrchestratedAlertTriageSystem.initialize:
\* every worker registered and online, every mailbox empty
SystemUp ==
    /\ registry = register_all(CoralRegistry, SetToSortedSeq(SystemObjects))
    /\ agent_status = [o \in AgentObjects |->
                          IF o \in SystemObjects THEN "online" ELSE "offline"]
    /\ mailbox = [o \in AgentObjects |-> <<>>]
    /\ registry_result = NoResult

Init == Quiet /\ SystemUp /\ counting = FALSE

\* the same state, with the counters of the retry scenarios switched on
InitCounting == Quiet /\ SystemUp /\ counting = TRUE

\* the same system after unregister_agent has removed one of the workers
InitUnrouted ==
    /\ Quiet
    /\ counting = FALSE
    /\ \E o \in SystemObjects :
          registry = unregister_agent(
                         register_all(CoralRegistry, SetToSortedSeq(SystemObjects)),
                         agent_pool[o].agent_id).registry
    /\ agent_status = [o \in AgentObjects |->
                          IF o \in SystemObjects THEN "online" ELSE "offline"]
    /\ mailbox = [o \in AgentObjects |-> <<>>]
    /\ registry_result = NoResult

(***************************************************************************)
(* Environment: callers and workers                                         *)
(***************************************************************************)
StartsQueued ==
    Cardinality({i \in 1..Len(message_queue) :
                    /\ message_queue[i].message_type = "orchestrate_workflow"
                    /\ message_queue[i].workflow_type \in WorkflowTypes})

\* a caller routes a workflow start request to the orchestrator
SubmitWorkflow ==
    \E wt \in RequestTypes, ctx \in StartContexts :
        /\ Len(message_queue) < MaxQueue
        /\ wt \in WorkflowTypes
              => Cardinality(DOMAIN active_workflows) + StartsQueued < MaxWorkflows
        /\ message_queue' = Append(message_queue,
               Envelope("orchestrate_workflow", wt, ctx, 0, 0, {}))
        /\ UNCHANGED << active_workflows, assigned, sleeping, control_count,
                        last_sent, send_count, retries_started, counting,
                    response, registry, agent_status, mailbox, registry_result, runtime_vars >>

\* a caller routes a pause, resume or cancel command to the orchestrator
SubmitControl ==
    \E kind \in {"workflow_pause", "workflow_resume", "workflow_cancel"},
       wid \in WfIds :
        /\ Len(message_queue) < MaxQueue
        /\ control_count < MaxControl
        /\ control_count' = control_count + 1
        /\ message_queue' = Append(message_queue,
               Envelope(kind, "", {}, wid, 0, {}))
        /\ UNCHANGED << active_workflows, assigned, sleeping,
                        last_sent, send_count, retries_started, counting,
                    response, registry, agent_status, mailbox, registry_result, runtime_vars >>

\* the worker's task logic returned: _report_task_completion
WorkerCompletes ==
    \E a \in assigned : \E res \in ResultsOf(a.step_id) :
        /\ Len(message_queue) < MaxQueue
        /\ assigned' = assigned \ {a}
        /\ message_queue' = Append(message_queue,
               Envelope("agent_task_complete", "", {}, a.workflow_id, a.task_id, res))
        /\ UNCHANGED << active_workflows, sleeping, control_count,
                        last_sent, send_count, retries_started, counting,
                    response, registry, agent_status, mailbox, registry_result, runtime_vars >>

\* the worker's task logic raised: _report_task_failure
WorkerFails ==
    \E a \in assigned :
        /\ Len(message_queue) < MaxQueue
        /\ assigned' = assigned \ {a}
        /\ message_queue' = Append(message_queue,
               Envelope("agent_task_fail", "", {}, a.workflow_id, a.task_id, {}))
        /\ UNCHANGED << active_workflows, sleeping, control_count,
                        last_sent, send_count, retries_started, counting,
                    response, registry, agent_status, mailbox, registry_result, runtime_vars >>

(***************************************************************************)
(* The orchestrator's processing loop: one envelope at a time, and none     *)
(* while a handler is suspended in the retry delay                          *)
(***************************************************************************)
Taking(mt) ==
    /\ sleeping = <<>>
    /\ message_queue # <<>>
    /\ Head(message_queue).message_type = mt
    /\ message_queue' = Tail(message_queue)

\* uuid4 for a new workflow instance
NewWorkflowId == CHOOSE w \in InstanceIds \ DOMAIN active_workflows :
                     \A v \in InstanceIds \ DOMAIN active_workflows : w <= v

create_workflow_execution(workflow_type, context) ==
    [workflow_definition |-> workflow_definitions[workflow_type],
     current_step |-> 0,
     status |-> "pending",
     agent_tasks |-> EmptyDict,
     context |-> context]

\* a start that leaves the instance pending
start_workflow_execution_pending(workflow, wid, ids) ==
    execute_workflow_step(workflow, wid, ids)

\* _start_workflow_execution
start_workflow_execution(workflow, wid, ids) ==
    execute_workflow_step([workflow EXCEPT !.status = "running"], wid, ids)

handle_orchestrate_workflow ==
    /\ Taking("orchestrate_workflow")
    /\ LET msg == Head(message_queue)
           wid == NewWorkflowId
           created == create_workflow_execution(msg.workflow_type, msg.context)
           run == start_workflow_execution(created, wid, FreshTaskIds)
       IN IF msg.workflow_type \notin WorkflowTypes
          THEN /\ last_sent' = <<>>
               /\ Respond("error")
               /\ UNCHANGED << active_workflows, assigned, send_count >>
          ELSE /\ InstanceIds \ DOMAIN active_workflows # {}
               /\ Len(FreshTaskIds)
                      >= ids_needed([created EXCEPT !.status = "running"])
               /\ active_workflows' = (wid :> run.workflow) @@ active_workflows
               /\ Send(run.sent)
               /\ Respond(IF run.raised THEN "error" ELSE "success")
    /\ UNCHANGED << sleeping, control_count, retries_started, counting,
                    registry, agent_status, mailbox, registry_result, runtime_vars >>

\* the task lookup shared by the completion and the failure handler
WorkflowsHolding(tid) ==
    {w \in DOMAIN active_workflows :
        \E s \in DOMAIN active_workflows[w].agent_tasks :
            active_workflows[w].agent_tasks[s].task_id = tid}

StepHolding(workflow, tid) ==
    CHOOSE s \in DOMAIN workflow.agent_tasks : workflow.agent_tasks[s].task_id = tid

MarkTask(workflow, tid, status, result) ==
    [workflow EXCEPT !.agent_tasks =
        [s \in DOMAIN @ |->
            IF @[s].task_id = tid
            THEN [@[s] EXCEPT !.status = status, !.result = result]
            ELSE @[s]]]

handle_agent_task_complete ==
    /\ Taking("agent_task_complete")
    /\ LET msg == Head(message_queue)
           found == WorkflowsHolding(msg.task_id)
       IN IF found = {}
          THEN /\ last_sent' = <<>>
               /\ Respond("acknowledged")
               /\ UNCHANGED << active_workflows, assigned, send_count >>
          ELSE LET wid == CHOOSE w \in found : TRUE
                   marked == MarkTask(active_workflows[wid], msg.task_id,
                                      AgentStatus_COMPLETED, msg.result)
                   merged == [marked EXCEPT
                                 !.context = DictUpdate(@, msg.result)]
                   run == execute_workflow_step(merged, wid, FreshTaskIds)
               IN /\ Len(FreshTaskIds) >= ids_needed(merged)
                  /\ active_workflows' = [active_workflows EXCEPT ![wid] = run.workflow]
                  /\ Send(run.sent)
                  /\ Respond(IF run.raised THEN "error" ELSE "acknowledged")
    /\ UNCHANGED << sleeping, control_count, retries_started, counting,
                    registry, agent_status, mailbox, registry_result, runtime_vars >>

\* _handle_agent_task_complete as a function of the instances: the
\* instances afterwards and the assignments sent
agent_task_complete(workflows, tid, result, ids) ==
    LET found == {w \in DOMAIN workflows :
                     \E s \in DOMAIN workflows[w].agent_tasks :
                         workflows[w].agent_tasks[s].task_id = tid}
    IN IF found = {} THEN [workflows |-> workflows, sent |-> <<>>]
       ELSE LET wid == CHOOSE w \in found : TRUE
                marked == MarkTask(workflows[wid], tid, AgentStatus_COMPLETED,
                                   result)
                merged == [marked EXCEPT !.context = DictUpdate(@, result)]
                run == execute_workflow_step(merged, wid, ids)
            IN [workflows |-> [workflows EXCEPT ![wid] = run.workflow],
                sent |-> run.sent]

\* the delay _handle_task_retry computes for a task whose retry_count was
\* already incremented
retry_delay_of(retry_policy, retry_count) ==
    IF retry_policy.exponential_backoff
    THEN retry_policy.retry_delay * Pow2(retry_count - 1)
    ELSE retry_policy.retry_delay

\* _handle_agent_task_fail and _handle_task_retry up to the asyncio.sleep
handle_agent_task_fail ==
    /\ Taking("agent_task_fail")
    /\ LET msg == Head(message_queue)
           found == WorkflowsHolding(msg.task_id)
       IN IF found = {}
          THEN /\ Respond("acknowledged")
               /\ UNCHANGED << active_workflows, sleeping, retries_started >>
          ELSE LET wid == CHOOSE w \in found : TRUE
                   workflow == active_workflows[wid]
                   sid == StepHolding(workflow, msg.task_id)
                   task == workflow.agent_tasks[sid]
                   retry_policy == workflow.workflow_definition.retry_policy
                   failed == [workflow EXCEPT
                                 !.agent_tasks[sid].status = AgentStatus_FAILED]
               IN IF task.retry_count >= retry_policy.max_retries
                  THEN /\ active_workflows' =
                              [active_workflows EXCEPT ![wid] =
                                  [failed EXCEPT !.status = "failed"]]
                       /\ Respond("acknowledged")
                       /\ UNCHANGED << sleeping, retries_started >>
                  ELSE LET delay == retry_delay_of(retry_policy, task.retry_count + 1)
                       IN /\ active_workflows' =
                                 [active_workflows EXCEPT ![wid] =
                                     [failed EXCEPT
                                         !.agent_tasks[sid].retry_count = @ + 1,
                                         !.agent_tasks[sid].status = AgentStatus_PENDING,
                                         !.agent_tasks[sid].retry_delay = delay]]
                          /\ sleeping' = << [workflow_id |-> wid,
                                             task_id |-> msg.task_id,
                                             delay |-> delay] >>
                          /\ retries_started' =
                                 IF ~ counting THEN retries_started ELSE
                                 [retries_started EXCEPT ![wid][sid] =
                                     Min(RetryCap, @ + 1)]
                          /\ UNCHANGED response
    /\ last_sent' = <<>>
    /\ UNCHANGED << assigned, control_count, send_count, counting,
                    registry, agent_status, mailbox, registry_result, runtime_vars >>

\* _handle_task_retry after the asyncio.sleep: the re-dispatch
retry_wake ==
    /\ sleeping # <<>>
    /\ Len(FreshTaskIds) >= 1
    /\ LET wid == sleeping[1].workflow_id
           workflow == active_workflows[wid]
           step == workflow.workflow_definition.steps[workflow.current_step + 1]
           tid == FreshTaskIds[1]
       IN /\ active_workflows' =
                 [active_workflows EXCEPT ![wid] = assign_agent_task(workflow, step, tid)]
          /\ Send(IF Routable(step.agent_type)
                  THEN << Assignment(wid, step, tid) >> ELSE <<>>)
          /\ Respond(IF Routable(step.agent_type) THEN "acknowledged" ELSE "error")
    /\ sleeping' = <<>>
    /\ UNCHANGED << message_queue, control_count, retries_started, counting,
                    registry, agent_status, mailbox, registry_result, runtime_vars >>

handle_workflow_pause ==
    /\ Taking("workflow_pause")
    /\ LET wid == Head(message_queue).workflow_id
       IN IF wid \in DOMAIN active_workflows
          THEN active_workflows' = [active_workflows EXCEPT ![wid].status = "paused"]
          ELSE UNCHANGED active_workflows
    /\ last_sent' = <<>>
    /\ Respond("paused")
    /\ UNCHANGED << assigned, sleeping, control_count, send_count,
                    retries_started, counting,
                    registry, agent_status, mailbox, registry_result, runtime_vars >>

handle_workflow_resume ==
    /\ Taking("workflow_resume")
    /\ LET wid == Head(message_queue).workflow_id
       IN IF wid \in DOMAIN active_workflows
          THEN LET resumed == [active_workflows[wid] EXCEPT !.status = "running"]
                   run == execute_workflow_step(resumed, wid, FreshTaskIds)
               IN /\ Len(FreshTaskIds) >= ids_needed(resumed)
                  /\ active_workflows' = [active_workflows EXCEPT ![wid] = run.workflow]
                  /\ Send(run.sent)
                  /\ Respond(IF run.raised THEN "error" ELSE "resumed")
          ELSE /\ last_sent' = <<>>
               /\ Respond("resumed")
               /\ UNCHANGED << active_workflows, assigned, send_count >>
    /\ UNCHANGED << sleeping, control_count, retries_started, counting,
                    registry, agent_status, mailbox, registry_result, runtime_vars >>

handle_workflow_cancel ==
    /\ Taking("workflow_cancel")
    /\ LET wid == Head(message_queue).workflow_id
       IN IF wid \in DOMAIN active_workflows
          THEN active_workflows' =
                  [active_workflows EXCEPT
                      ![wid].status = "cancelled",
                      ![wid].agent_tasks =
                          [s \in DOMAIN @ |->
                              IF @[s].status = AgentStatus_RUNNING
                              THEN [@[s] EXCEPT !.status = AgentStatus_CANCELLED]
                              ELSE @[s]]]
          ELSE UNCHANGED active_workflows
    /\ last_sent' = <<>>
    /\ Respond("cancelled")
    /\ UNCHANGED << assigned, sleeping, control_count, send_count,
                    retries_started, counting,
                    registry, agent_status, mailbox, registry_result, runtime_vars >>

(***************************************************************************)
(* The registry's operations, and the agents' side of them                  *)
(***************************************************************************)
RegistryIds == {agent_pool[o].agent_id : o \in RegistryObjects}

\* the capability queries and exclude lists tried by discover
Queries == { <<>>, <<"execute_task">>, <<"gather_context">>,
             <<"execute_task", "gather_context">>, <<"normalize_alert">>,
             <<"gather_context", "normalize_alert">> }

\* the registry as it is constructed, and agents that are not yet registered
InitRegistry ==
    /\ Quiet
    /\ counting = FALSE
    /\ registry = CoralRegistry
    /\ agent_status = [o \in AgentObjects |-> "offline"]
    /\ mailbox = [o \in AgentObjects |-> <<>>]
    /\ registry_result = NoResult

\* CoralAgent.register_with_coral: register_agent, then the agent is online
register_with_coral ==
    \E o \in RegistryObjects :
        LET r == register_agent(registry, o)
        IN /\ registry' = r.registry
           /\ agent_status' = IF r.raised = "none"
                              THEN [agent_status EXCEPT ![o] = "online"]
                              ELSE agent_status
           /\ registry_result' = Result("register", o, agent_pool[o].agent_id,
                                        <<>>, {}, {}, r.raised, r.raised)
           /\ UNCHANGED << mailbox, orchestrator_vars, runtime_vars >>

unregister ==
    \E agent_id \in RegistryIds :
        LET r == unregister_agent(registry, agent_id)
        IN /\ registry' = r.registry
           /\ registry_result' = Result("unregister", 0, agent_id,
                                        <<>>, {}, {}, r.raised, r.raised)
           /\ UNCHANGED << agent_status, mailbox, orchestrator_vars, runtime_vars >>

discover ==
    \E required \in Queries, exclude \in SUBSET RegistryIds :
        LET r == discover_agents(registry, agent_status, required, exclude)
        IN /\ registry_result' = Result("discover", 0, "", required, exclude,
                                        r.value, r.raised, r.raised)
           /\ UNCHANGED << registry, agent_status, mailbox, orchestrator_vars, runtime_vars >>

\* route_message for an envelope addressed to receiver_id
route_message ==
    \E receiver_id \in RegistryIds \cup {"nobody"} :
        LET attempts == registry.total_messages_routed + registry.failed_message_count
            message == [id |-> attempts + 1, receiver_id |-> receiver_id,
                        thread_id |-> "thread_1"]
            target == route_target(registry, agent_status, receiver_id)
            o == registry.agents[receiver_id]
            delivery == receive_message(mailbox, o, message)
            cause == IF target # "none" THEN target ELSE delivery.raised
        IN /\ attempts < MaxRoutes
           /\ mailbox' = IF target = "none" THEN delivery.mailbox ELSE mailbox
           /\ registry' =
                 [registry EXCEPT
                     !.message_history =
                         IF target = "none"
                         THEN track_message_in_workflow(@, message) ELSE @,
                     !.total_messages_routed = IF cause = "none" THEN @ + 1 ELSE @,
                     !.failed_message_count = IF cause = "none" THEN @ ELSE @ + 1]
           /\ registry_result' =
                 Result("route", IF target = "none" THEN o ELSE 0, receiver_id,
                        <<>>, {}, {},
                        IF cause = "none" THEN "none" ELSE "MessageRoutingError",
                        cause)
           /\ UNCHANGED << agent_status, orchestrator_vars, runtime_vars >>

\* the owner of an agent object sets its status
status_update ==
    \E o \in RegistryObjects, st \in AgentStatuses :
        /\ agent_status[o] # st
        /\ agent_status' = [agent_status EXCEPT ![o] = st]
        /\ registry_result' = NoResult
        /\ UNCHANGED << registry, mailbox, orchestrator_vars, runtime_vars >>

\* CoralAgent.process_messages: a running agent takes the next envelope
process_messages ==
    \E o \in RegistryObjects :
        /\ agent_status[o] \in {"online", "busy"}
        /\ mailbox[o] # <<>>
        /\ mailbox' = [mailbox EXCEPT ![o] = Tail(@)]
        /\ registry_result' = NoResult
        /\ UNCHANGED << registry, agent_status, orchestrator_vars, runtime_vars >>

\* the worker whose runtime is followed, and the agent that shares the
\* registry with it
Worker == 1
Peer == 2

\* a caller builds an envelope for the worker and routes it
deliver ==
    \E sender_id \in {agent_pool[Peer].agent_id, "api_webhook"},
       own_id \in BOOLEAN,
       thread_id \in {NoId} \cup DOMAIN registry.message_history,
       correlation_id \in {NoId, << "c" >>} :
        LET id == IF own_id THEN uuid4(uuids) ELSE NoId
            n == IF own_id THEN uuids + 1 ELSE uuids
            message == CoralMessage(id, sender_id, agent_pool[Worker].agent_id,
                                    "command", thread_id, "task", NoId,
                                    correlation_id, n)
            r == route(Net(registry, mailbox, error_count), agent_status, message)
        IN /\ uuids + 2 <= MaxUuids
           /\ uuids' = n + drawn(id, thread_id)
           /\ registry' = r.net.registry
           /\ mailbox' = r.net.mailbox
           /\ error_count' = r.net.errors
           /\ registry_result' = NoResult
           /\ last_call' = Call("route", Worker, message, NoMessage, FALSE, r.cause)
           /\ UNCHANGED << agent_status, orchestrator_vars, handled,
                           processed_messages, loop, shutdown_pc, executor_vars >>

\* main: asyncio.create_task(agent.process_messages())
loop_start ==
    /\ loop[Worker] = "not started"
    /\ loop' = [loop EXCEPT ![Worker] = "running"]
    /\ UNCHANGED << orchestrator_vars, registry_vars, uuids, handled,
                    error_count, processed_messages, shutdown_pc, last_call,
                    executor_vars >>

\* one turn of the while loop of process_messages with an envelope waiting
loop_take ==
    /\ loop[Worker] = "running"
    /\ agent_status[Worker] \in {"online", "busy"}
    /\ mailbox[Worker] # <<>>
    /\ \E handler_raises \in BOOLEAN :
          LET message == Head(mailbox[Worker])
              p == process_single_message(
                       Net(registry, [mailbox EXCEPT ![Worker] = Tail(@)],
                           error_count),
                       agent_status, Worker, message, handler_raises, uuids)
          IN /\ last_call' = Call("process", Worker, message, p.reply,
                                  handler_raises, p.cause)
             /\ handled' = [handled EXCEPT ![Worker] = Append(@, last_call')]
             /\ uuids' = uuids + p.drawn
             /\ registry' = p.net.registry
             /\ mailbox' = p.net.mailbox
             /\ error_count' = IF p.propagates
                               THEN [p.net.errors EXCEPT ![Worker] = @ + 1]
                               ELSE p.net.errors
             /\ processed_messages' =
                    IF p.propagates THEN processed_messages
                    ELSE [processed_messages EXCEPT ![Worker] = @ + 1]
             /\ loop' = [loop EXCEPT ![Worker] = loop_after(p.propagates)]
    /\ registry_result' = NoResult
    /\ UNCHANGED << agent_status, orchestrator_vars, shutdown_pc, executor_vars >>

\* the while condition of process_messages fails
loop_exit ==
    /\ loop[Worker] = "running"
    /\ agent_status[Worker] \notin {"online", "busy"}
    /\ loop' = [loop EXCEPT ![Worker] = "stopped"]
    /\ UNCHANGED << orchestrator_vars, registry_vars, uuids, handled,
                    error_count, processed_messages, shutdown_pc, last_call,
                    executor_vars >>

\* shutdown(): the status is set before the drain
shutdown_begin ==
    /\ shutdown_pc[Worker] = "not called"
    /\ agent_status' = [agent_status EXCEPT ![Worker] = "offline"]
    /\ shutdown_pc' = [shutdown_pc EXCEPT ![Worker] = "draining"]
    /\ registry_result' = NoResult
    /\ last_call' = Call("shutdown", Worker, NoMessage, NoMessage, FALSE, "none")
    /\ UNCHANGED << orchestrator_vars, registry, mailbox, uuids, handled,
                    error_count, processed_messages, loop, executor_vars >>

\* one turn of the drain loop of shutdown(); only asyncio.TimeoutError is
\* caught there
shutdown_drain ==
    /\ shutdown_pc[Worker] = "draining"
    /\ mailbox[Worker] # <<>>
    /\ \E handler_raises \in BOOLEAN :
          LET message == Head(mailbox[Worker])
              p == process_single_message(
                       Net(registry, [mailbox EXCEPT ![Worker] = Tail(@)],
                           error_count),
                       agent_status, Worker, message, handler_raises, uuids)
          IN /\ last_call' = Call("drain", Worker, message, p.reply,
                                  handler_raises, p.cause)
             /\ handled' = [handled EXCEPT ![Worker] = Append(@, last_call')]
             /\ uuids' = uuids + p.drawn
             /\ registry' = p.net.registry
             /\ mailbox' = p.net.mailbox
             /\ error_count' = p.net.errors
             /\ shutdown_pc' = IF p.propagates
                               THEN [shutdown_pc EXCEPT ![Worker] = "raised"]
                               ELSE shutdown_pc
    /\ registry_result' = NoResult
    /\ UNCHANGED << agent_status, orchestrator_vars, processed_messages, loop,
                    executor_vars >>

\* shutdown() returns: the mailbox is empty
shutdown_end ==
    /\ shutdown_pc[Worker] = "draining"
    /\ mailbox[Worker] = <<>>
    /\ shutdown_pc' = [shutdown_pc EXCEPT ![Worker] = "done"]
    /\ UNCHANGED << orchestrator_vars, registry_vars, uuids, handled,
                    error_count, processed_messages, loop, last_call,
                    executor_vars >>

(***************************************************************************)
(* The task executor.  Tasks are named by their task_id, 1, 2, ... in the   *)
(* order in which the executor was asked to execute them.                   *)
(***************************************************************************)
max_concurrent_tasks == 1

\* the fields of a TaskExecutorBase that task handling touches, with the
\* coroutines created by asyncio.create_task and not ended yet
Executor(queue, current, coroutines, status, taken) ==
    [task_queue |-> queue, current_tasks |-> current, executions |-> coroutines,
     task_status |-> status, started |-> taken]

TheExecutor ==
    Executor(task_queue, current_tasks, executions, task_status, started)

\* _process_next_task
process_next_task(ex) ==
    IF ex.task_queue = <<>>
           \/ Cardinality(ex.current_tasks) >= max_concurrent_tasks
    THEN ex
    ELSE LET task_id == Head(ex.task_queue)
         IN Executor(Tail(ex.task_queue), ex.current_tasks \cup {task_id},
                     ex.executions \cup {[task_id |-> task_id, begun |-> FALSE]},
                     ex.task_status, Append(ex.started, task_id))

\* a _cancel_task that leaves the queue alone
cancel_task_keep_queue(ex, task_id) ==
    IF task_id \in ex.current_tasks
    THEN Executor(ex.task_queue, ex.current_tasks \ {task_id}, ex.executions,
                  [ex.task_status EXCEPT ![task_id] = TaskStatus_CANCELLED],
                  ex.started)
    ELSE ex

\* _cancel_task: the coroutine of a running task is not touched
cancel_task(ex, task_id) ==
    LET queue == SelectSeq(ex.task_queue, LAMBDA t : t # task_id)
    IN IF task_id \in ex.current_tasks
       THEN Executor(queue, ex.current_tasks \ {task_id}, ex.executions,
                     [ex.task_status EXCEPT ![task_id] = TaskStatus_CANCELLED],
                     ex.started)
       ELSE Executor(queue, ex.current_tasks, ex.executions, ex.task_status,
                     ex.started)

\* _report_task_completion and _report_task_failure: send_message of a report
\* to the orchestrator, which the registry can reach or not
report(net, o, message, reachable) ==
    IF reachable
    THEN [net |-> Net([net.registry EXCEPT
                          !.message_history = track_message_in_workflow(@, message),
                          !.total_messages_routed = @ + 1],
                      net.mailbox, net.errors),
          cause |-> "none"]
    ELSE [net |-> Net([net.registry EXCEPT !.failed_message_count = @ + 1],
                      net.mailbox, [net.errors EXCEPT ![o] = @ + 1]),
          cause |-> "Target agent not found"]

\* the outcome report of task_id, built when n values of uuid4 were returned
Report(o, task_id, status, n) ==
    CoralMessage(uuid4(n), agent_pool[o].agent_id, "alert_triage_system",
                 "response", << "workflow" >>, << task_id, status >>, NoId, NoId,
                 n + 1)

\* _execute_task after _execute_task_logic returned or raised: the status
\* of the task, the reports, and whether _process_next_task is reached
execute_task_end(ex, net, o, task_id, logic_raises, reachable, n) ==
    LET coroutine == [task_id |-> task_id, begun |-> TRUE]
        ended == Executor(ex.task_queue, ex.current_tasks \ {task_id},
                          ex.executions \ {coroutine}, ex.task_status, ex.started)
        completed == [ended EXCEPT !.task_status[task_id] = TaskStatus_COMPLETED]
        failed == [ended EXCEPT !.task_status[task_id] = TaskStatus_FAILED]
        completion == report(net, o, Report(o, task_id, "completed", n),
                             reachable[1])
        failure == IF logic_raises
                   THEN report(net, o, Report(o, task_id, "failed", n),
                               reachable[1])
                   ELSE report(completion.net, o,
                               Report(o, task_id, "failed", n + 1), reachable[2])
    IN IF ~ logic_raises /\ completion.cause = "none"
       THEN [executor |-> process_next_task(completed), net |-> completion.net,
             drawn |-> 1, cause |-> "none",
             reported |-> Report(o, task_id, "completed", n)]
       ELSE [executor |-> IF failure.cause = "none"
                          THEN process_next_task(failed) ELSE failed,
             net |-> failure.net,
             drawn |-> IF logic_raises THEN 1 ELSE 2,
             cause |-> failure.cause,
             reported |-> IF failure.cause # "none" THEN [id |-> 0]
                          ELSE Report(o, task_id, "failed",
                                      IF logic_raises THEN n ELSE n + 1)]

\* the executor's variables take the values of ex
Becomes(ex) ==
    /\ task_queue' = ex.task_queue
    /\ current_tasks' = ex.current_tasks
    /\ executions' = ex.executions
    /\ task_status' = ex.task_status
    /\ started' = ex.started

\* _handle_task_command, command execute_task
execute_task_command ==
    LET task_id == Cardinality(DOMAIN task_status) + 1
        queued == Executor(Append(task_queue, task_id), current_tasks, executions,
                           (task_id :> TaskStatus_PENDING) @@ task_status,
                           started)
    IN /\ task_id <= MaxJobs
       /\ uuids < MaxUuids
       /\ Becomes(IF Cardinality(current_tasks) < max_concurrent_tasks
                  THEN process_next_task(queued) ELSE queued)
       /\ uuids' = uuids + 1
       /\ last_call' = Call("execute_task", Worker, [id |-> task_id], NoMessage,
                            FALSE, "none")
       /\ UNCHANGED << orchestrator_vars, registry_vars, handled, error_count,
                       processed_messages, loop, shutdown_pc, cancelled_queued >>

\* _handle_task_command, command cancel_task, for a task_id the executor
\* has, had or never had
cancel_task_command ==
    \E task_id \in 1..MaxJobs :
        /\ uuids < MaxUuids
        /\ Becomes(cancel_task(TheExecutor, task_id))
        /\ cancelled_queued' =
               IF task_id \in SeqToSet(task_queue) /\ task_id \notin current_tasks
               THEN cancelled_queued \cup {task_id} ELSE cancelled_queued
        /\ uuids' = uuids + 1
        /\ last_call' = Call("cancel_task", Worker, [id |-> task_id], NoMessage,
                             FALSE, "none")
        /\ UNCHANGED << orchestrator_vars, registry_vars, handled, error_count,
                        processed_messages, loop, shutdown_pc >>

\* the first statements of _execute_task, up to the await of the task logic
execution_begins ==
    \E coroutine \in executions :
        /\ ~ coroutine.begun
        /\ executions' = (executions \ {coroutine})
                             \cup {[coroutine EXCEPT !.begun = TRUE]}
        /\ task_status' = [task_status EXCEPT
                               ![coroutine.task_id] = TaskStatus_RUNNING]
        /\ last_call' = Call("begin", Worker, [id |-> coroutine.task_id],
                             NoMessage, FALSE, "none")
        /\ UNCHANGED << orchestrator_vars, registry_vars, uuids, handled,
                        error_count, processed_messages, loop, shutdown_pc,
                        task_queue, current_tasks, started, cancelled_queued >>

\* the task logic returns or raises and _execute_task runs to its end
execution_ends ==
    \E coroutine \in executions, logic_raises \in BOOLEAN,
       reachable \in [1..2 -> BOOLEAN] :
        LET end == execute_task_end(TheExecutor,
                                    Net(registry, mailbox, error_count), Worker,
                                    coroutine.task_id, logic_raises, reachable,
                                    uuids)
        IN /\ coroutine.begun
           /\ Becomes(end.executor)
           /\ registry' = end.net.registry
           /\ error_count' = end.net.errors
           /\ uuids' = uuids + end.drawn
           /\ last_call' = Call("end", Worker, [id |-> coroutine.task_id],
                                end.reported, logic_raises, end.cause)
           /\ UNCHANGED << orchestrator_vars, agent_status, mailbox,
                           registry_result, handled, processed_messages, loop,
                           shutdown_pc, cancelled_queued >>

\* the registry with the two workers registered and online
InitBroadcast ==
    /\ Quiet
    /\ counting = FALSE
    /\ registry = register_all(CoralRegistry, << 1, 2 >>)
    /\ agent_status = [o \in AgentObjects |->
                          IF o \in {1, 2} THEN "online" ELSE "offline"]
    /\ mailbox = [o \in AgentObjects |-> <<>>]
    /\ registry_result = NoResult

\* the threads an envelope can be put on: a new one, or one the registry
\* has tracked
KnownThreads == {NoId} \cup DOMAIN registry.message_history

\* broadcast_message for an envelope a caller has just built
broadcast ==
    \E capability_filter \in Queries, thread_id \in KnownThreads :
        LET message == CoralMessage(uuid4(uuids), "api_webhook", "", "heartbeat",
                                    thread_id, "ping", NoId, NoId, uuids + 1)
            found == discover_agents(registry, agent_status, capability_filter, {})
        IN /\ uuids + 2 <= MaxUuids
           /\ uuids' = uuids + 1 + drawn(message.id, thread_id)
           /\ \E target_agents \in Orders(found.value) :
                 LET net == IF found.raised # "none"
                            THEN Net(registry, mailbox, error_count)
                            ELSE broadcast_message(
                                     Net(registry, mailbox, error_count),
                                     agent_status, message, target_agents)
                 IN /\ registry' = net.registry
                    /\ mailbox' = net.mailbox
                    /\ error_count' = net.errors
           /\ registry_result' = Result("broadcast", 0, "", capability_filter, {},
                                        found.value, found.raised, found.raised)
           /\ last_call' = Call("broadcast", 0, message, NoMessage, FALSE, "none")
           /\ UNCHANGED << agent_status, orchestrator_vars, handled,
                           processed_messages, loop, shutdown_pc, executor_vars >>

(***************************************************************************)
(* Specifications                                                           *)
(***************************************************************************)
\* every worker fails every attempt
NextFailing ==
    \/ SubmitWorkflow
    \/ WorkerFails
    \/ handle_orchestrate_workflow
    \/ handle_agent_task_fail
    \/ retry_wake

\* callers start workflows and workers answer; no control commands
NextWorkers ==
    \/ SubmitWorkflow
    \/ WorkerCompletes
    \/ WorkerFails
    \/ handle_orchestrate_workflow
    \/ handle_agent_task_complete
    \/ handle_agent_task_fail
    \/ retry_wake

\* every worker reports completion
NextSucceed ==
    \/ SubmitWorkflow
    \/ WorkerCompletes
    \/ handle_orchestrate_workflow
    \/ handle_agent_task_complete

Next ==
    \/ SubmitWorkflow
    \/ SubmitControl
    \/ WorkerCompletes
    \/ WorkerFails
    \/ handle_orchestrate_workflow
    \/ handle_agent_task_complete
    \/ handle_agent_task_fail
    \/ retry_wake
    \/ handle_workflow_pause
    \/ handle_workflow_resume
    \/ handle_workflow_cancel

Spec == Init /\ [][Next]_vars

\* agents register, unregister and change status; callers discover
NextRegistry ==
    \/ register_with_coral
    \/ unregister
    \/ discover
    \/ status_update

SpecRegistry == InitRegistry /\ [][NextRegistry]_vars

\* agents register, change status and take envelopes; callers route
NextRouting ==
    \/ register_with_coral
    \/ route_message
    \/ status_update
    \/ process_messages

SpecRouting == InitRegistry /\ [][NextRouting]_vars

\* callers broadcast while agents change status and take envelopes
NextBroadcast ==
    \/ broadcast
    \/ status_update
    \/ process_messages

SpecBroadcast == InitBroadcast /\ [][NextBroadcast]_vars

\* callers route envelopes to a worker whose loop runs until it shuts down
NextWorker ==
    \/ deliver
    \/ loop_start
    \/ loop_take
    \/ loop_exit
    \/ shutdown_begin
    \/ shutdown_drain
    \/ shutdown_end

SpecWorker == InitBroadcast /\ [][NextWorker]_vars

\* an executor gets execute_task and cancel_task commands while the tasks
\* it started run
NextExecutor ==
    \/ execute_task_command
    \/ cancel_task_command
    \/ execution_begins
    \/ execution_ends

SpecExecutor == InitBroadcast /\ [][NextExecutor]_vars

\* the event loop keeps running the worker's processing loop
FairWorker == SpecWorker /\ WF_vars(loop_start) /\ WF_vars(loop_take)

\* the runs in which every worker fails every attempt, with the counters
SpecFailing == InitCounting /\ [][NextFailing]_vars

\* the runs in which no worker ever fails
SpecSucceed == Init /\ [][NextSucceed]_vars

\* the runs in which one worker is missing from the registry
SpecUnrouted == InitUnrouted /\ [][NextSucceed]_vars

\* the runs in which no worker ever fails, with the handlers' replies kept
SpecStart == InitCounting /\ [][NextSucceed]_vars

\* a worker answers the assignment that carries task id tid
WorkerAnswers(tid) ==
    /\ tid \in {a.task_id : a \in assigned}
    /\ WorkerCompletes \/ WorkerFails
    /\ tid \notin {a.task_id : a \in assigned'}

\* every assignment is eventually answered (a worker's report waits for room
\* in the orchestrator's mailbox, which start requests cannot take for
\* ever), the orchestrator's loop keeps taking envelopes, and a retry delay
\* ends
Fairness ==
    /\ \A tid \in TaskIds : SF_vars(WorkerAnswers(tid))
    /\ WF_vars(handle_orchestrate_workflow)
    /\ WF_vars(handle_agent_task_complete)
    /\ WF_vars(handle_agent_task_fail)
    /\ WF_vars(retry_wake)

FairSpec == Init /\ [][NextWorkers]_vars /\ Fairness

TypeOK ==
    /\ \A w \in DOMAIN active_workflows :
          active_workflows[w].status \in WorkflowState
    /\ Len(message_queue) <= MaxQueue
    /\ Len(sleeping) <= 1

(***************************************************************************)
(* Properties                                                               *)
(***************************************************************************)
Instances == DOMAIN active_workflows

\* the assignments of instance w that no worker has answered yet
Outstanding(w) == {a \in assigned : a.workflow_id = w}

Terminal == {"completed", "failed", "cancelled"}

DependenciesCompleted(workflow, sid) ==
    LET step == StepOf(workflow.workflow_definition, sid)
    IN \A i \in 1..Len(step.dependencies) :
           /\ step.dependencies[i] \in DOMAIN workflow.agent_tasks
           /\ workflow.agent_tasks[step.dependencies[i]].status = AgentStatus_COMPLETED

\* C1: every task assignment the orchestrator sends is for a step all of
\* whose dependencies have a completed task in the instance's agent_tasks,
\* whichever handler sent it (start, completion, resume, retry).
DependencyGating ==
    \A i \in 1..Len(last_sent) :
        DependenciesCompleted(active_workflows[last_sent[i].workflow_id],
                              last_sent[i].step_id)

\* C2: a step of an instance never has two assignments that are both still
\* unanswered.
NoDuplicateDispatch ==
    \A w \in Instances : \A s \in AllStepIds :
        Cardinality({a \in Outstanding(w) : a.step_id = s}) <= 1

\* C3: the number of dispatched and still unanswered tasks of an instance
\* never exceeds the definition's max_parallel_steps.
BoundedParallelism ==
    \A w \in Instances :
        Cardinality(Outstanding(w))
            <= active_workflows[w].workflow_definition.max_parallel_steps

\* C4: when the worker of a step fails every attempt, at most
\* max_retries + 1 task assignments are sent for that step (1 initial and
\* max_retries retries).
RetryExhaustion ==
    \A w \in Instances :
        \A s \in StepIdsOf(active_workflows[w].workflow_definition) :
            send_count[w][s]
                <= active_workflows[w].workflow_definition.retry_policy.max_retries + 1

\* C5: the assignment sent when a retry delay ends is for the step whose
\* task failed, and goes to that step's worker.
RetryTargetsFailedStep ==
    [][ (sleeping # <<>> /\ sleeping' = <<>>)
        => LET workflow == active_workflows[sleeping[1].workflow_id]
               sid == StepHolding(workflow, sleeping[1].task_id)
           IN /\ Len(last_sent') = 1
              /\ last_sent'[1].workflow_id = sleeping[1].workflow_id
              /\ last_sent'[1].step_id = sid
              /\ last_sent'[1].receiver_id
                     = StepOf(workflow.workflow_definition, sid).agent_type ]_vars

\* C6: the delay waited before the k-th retry of a step is
\* retry_delay * 2^(k-1) with exponential backoff, and retry_delay without.
BackoffGrowth ==
    \A i \in 1..Len(sleeping) :
        LET workflow == active_workflows[sleeping[i].workflow_id]
            sid == StepHolding(workflow, sleeping[i].task_id)
            k == retries_started[sleeping[i].workflow_id][sid]
            retry_policy == workflow.workflow_definition.retry_policy
        IN k < RetryCap
              => sleeping[i].delay =
                    IF retry_policy.exponential_backoff
                    THEN retry_policy.retry_delay * Pow2(k - 1)
                    ELSE retry_policy.retry_delay

\* C7: when every assignment is eventually answered, every instance
\* eventually reaches completed, failed or cancelled.
TerminalConvergence ==
    \A w \in WfIds :
        (w \in Instances)
            ~> (w \in Instances /\ active_workflows[w].status \in Terminal)

\* an instance with nothing left in flight: no unanswered assignment, no
\* envelope waiting in the orchestrator's mailbox, no retry delay running
Quiescent(w) ==
    /\ Outstanding(w) = {}
    /\ message_queue = <<>>
    /\ sleeping = <<>>

\* C8: an instance of the linear workflow A -> B -> C (max_parallel_steps = 1)
\* whose workers all report completion ends completed, with exactly one
\* task per step, all completed, and with the keys of every task result in
\* its context.
LinearSuccess ==
    \A w \in Instances :
        LET workflow == active_workflows[w]
        IN workflow.workflow_definition = linear3_workflow
           => /\ Quiescent(w) => workflow.status = "completed"
              /\ workflow.status = "completed"
                 => /\ DOMAIN workflow.agent_tasks = {"A", "B", "C"}
                    /\ Cardinality(DOMAIN workflow.agent_tasks) = 3
                    /\ \A s \in DOMAIN workflow.agent_tasks :
                          /\ workflow.agent_tasks[s].status = AgentStatus_COMPLETED
                          /\ workflow.agent_tasks[s].result \in ResultsOf(s)
                          /\ Keys(workflow.agent_tasks[s].result)
                                 \subseteq Keys(workflow.context)

\* a linear instance has completed after three completion reports
LinearSuccessWitness ==
    \E w \in Instances :
        /\ active_workflows[w].workflow_definition = linear3_workflow
        /\ active_workflows[w].status = "completed"
        /\ Quiescent(w)
        /\ {"A", "B", "C", "verdict"} \subseteq Keys(active_workflows[w].context)

\* C9: a completed instance has a completed task for every step of its
\* definition, and none of its assignments is still unanswered.
CompletionSoundness ==
    \A w \in Instances :
        active_workflows[w].status = "completed"
            => /\ \A s \in StepIdsOf(active_workflows[w].workflow_definition) :
                     is_step_completed(active_workflows[w], s)
               /\ Outstanding(w) = {}

\* C10: completed, failed and cancelled are absorbing: once an instance has
\* one of these statuses, no command or notification changes its status.
TerminalStatesAbsorbing ==
    [][ \A w \in Instances :
           active_workflows[w].status \in Terminal
               => active_workflows'[w].status = active_workflows[w].status ]_vars

\* the step in which the orchestrator's loop handles an envelope of type mt
Handles(mt) ==
    /\ sleeping = <<>>
    /\ message_queue # <<>>
    /\ Head(message_queue).message_type = mt
    /\ message_queue' = Tail(message_queue)

\* C11: while an instance is paused no task assignment is sent for it,
\* whatever completion or failure notifications arrive, and handling the
\* pause command changes no task of any instance.
PauseFreezesScheduling ==
    [][ /\ \A w \in Instances :
              (active_workflows[w].status = "paused"
                  /\ active_workflows'[w].status = "paused")
                  => \A a \in assigned' \ assigned : a.workflow_id # w
        /\ Handles("workflow_pause")
              => \A w \in Instances :
                     active_workflows'[w].agent_tasks
                         = active_workflows[w].agent_tasks ]_vars

\* C12: right after a cancel command for a known instance is handled, the
\* instance is cancelled and each of its dispatched, unanswered tasks has
\* status cancelled.
CancelMarksInFlight ==
    [][ (Handles("workflow_cancel")
            /\ Head(message_queue).workflow_id \in Instances)
        => LET w == Head(message_queue).workflow_id
           IN /\ active_workflows'[w].status = "cancelled"
              /\ \A a \in Outstanding(w) :
                    \A s \in DOMAIN active_workflows'[w].agent_tasks :
                        active_workflows'[w].agent_tasks[s].task_id = a.task_id
                            => active_workflows'[w].agent_tasks[s].status
                                   \in {AgentStatus_CANCELLED,
                                        "TaskStatus.CANCELLED"} ]_vars

\* C13: an instance for which the dispatch of a step was attempted whose
\* worker has no registrant is failed, and no assignment for that step was
\* delivered.
UnresolvableStepFails ==
    \A w \in Instances :
        \A s \in DOMAIN active_workflows[w].agent_tasks :
            route_target(registry, agent_status,
                         active_workflows[w].agent_tasks[s].agent_id)
                    = "Target agent not found"
                => /\ active_workflows[w].status = "failed"
                   /\ \A a \in Outstanding(w) : a.step_id # s

\* the steps without dependencies, in the order of the definition
RootSteps(def) == SelectSeq(def.steps, LAMBDA step : step.dependencies = <<>>)

Advertised(agent_id) ==
    {agent_pool[registry.agents[agent_id]].capabilities[i] :
        i \in 1..Len(agent_pool[registry.agents[agent_id]].capabilities)}

\* the registered agents that declare capability c
Providers(c) == {agent_id \in DOMAIN registry.agents : c \in Advertised(agent_id)}

\* the ids listed under capability c in an index
IndexEntry(index, c) == IF c \in DOMAIN index THEN index[c] ELSE <<>>

Listed(index, c) == {IndexEntry(index, c)[i] : i \in 1..Len(IndexEntry(index, c))}

\* C15: a discover call that returns, returns exactly the registered ids
\* whose advertised capabilities include every queried capability, whose
\* status is online and which are not excluded; also for the empty query.
DiscoveryCorrectness ==
    (registry_result.op = "discover" /\ registry_result.raised = "none")
        => registry_result.value =
              {agent_id \in DOMAIN registry.agents :
                  /\ \A i \in 1..Len(registry_result.required) :
                        registry_result.required[i] \in Advertised(agent_id)
                  /\ agent_status[registry.agents[agent_id]] = "online"
                  /\ agent_id \notin registry_result.exclude}

\* C16: a discover call fails with CapabilityNotFound exactly when some
\* requested capability has no registered worker at the time of the call.
CapabilityNotFound ==
    registry_result.op = "discover"
        => ( registry_result.raised = "CapabilityNotFoundError"
             <=> \E i \in 1..Len(registry_result.required) :
                     Providers(registry_result.required[i]) = {} )

\* C17: registering an id that is already registered fails with a
\* registration error and leaves the agent table, the metadata and the
\* capability index as they were; registering a fresh id adds the agent and
\* appends its id to the index entry of every capability it declares.
DuplicateRegistration ==
    [][ registry_result'.op = "register"
        => LET o == registry_result'.agent
               agent_id == agent_pool[o].agent_id
               declared == {agent_pool[o].capabilities[i] :
                               i \in 1..Len(agent_pool[o].capabilities)}
           IN IF agent_id \in DOMAIN registry.agents
              THEN /\ registry_result'.raised = "AgentRegistrationError"
                   /\ registry'.agents = registry.agents
                   /\ registry'.agent_metadata = registry.agent_metadata
                   /\ registry'.capabilities_index = registry.capabilities_index
              ELSE /\ registry_result'.raised = "none"
                   /\ DOMAIN registry'.agents = DOMAIN registry.agents \cup {agent_id}
                   /\ registry'.agents[agent_id] = o
                   /\ \A other \in DOMAIN registry.agents :
                         registry'.agents[other] = registry.agents[other]
                   /\ registry'.agent_metadata[agent_id] = agent_pool[o].capabilities
                   /\ \A c \in Capabilities :
                         IndexEntry(registry'.capabilities_index, c) =
                             IF c \in declared
                             THEN Append(IndexEntry(registry.capabilities_index, c),
                                         agent_id)
                             ELSE IndexEntry(registry.capabilities_index, c) ]_vars

\* a second object with the id of a registered agent was refused
DuplicateRegistrationWitness ==
    /\ registry_result.op = "register"
    /\ registry_result.raised = "AgentRegistrationError"
    /\ registry.agents[registry_result.agent_id] # registry_result.agent
    /\ Listed(registry.capabilities_index, "execute_task") = {"worker_a", "worker_b"}

\* C18: unregistering an absent id fails with NotFound and changes nothing;
\* after unregistering a registered id, the id is in no index entry and is
\* not routable; and at any time an id is listed under capability c exactly
\* when an agent with that id is registered and declares c.
UnregistrationConsistency ==
    [][ /\ \A c \in Capabilities, agent_id \in AgentIds :
               agent_id \in Listed(registry'.capabilities_index, c)
                   <=> ( /\ agent_id \in DOMAIN registry'.agents
                         /\ c \in {agent_pool[registry'.agents[agent_id]].capabilities[i] :
                                     i \in 1..Len(agent_pool[registry'.agents[agent_id]]
                                                      .capabilities)} )
        /\ registry_result'.op = "unregister"
           => LET agent_id == registry_result'.agent_id
              IN IF agent_id \notin DOMAIN registry.agents
                 THEN /\ registry_result'.raised = "AgentNotFoundError"
                      /\ registry' = registry
                      /\ agent_status' = agent_status
                      /\ mailbox' = mailbox
                 ELSE /\ registry_result'.raised = "none"
                      /\ \A c \in Capabilities :
                            agent_id \notin Listed(registry'.capabilities_index, c)
                      /\ route_target(registry', agent_status', agent_id)
                             = "Target agent not found" ]_vars

\* an agent that declared two capabilities was unregistered while another
\* agent stays listed
UnregistrationWitness ==
    /\ registry_result.op = "unregister"
    /\ registry_result.raised = "none"
    /\ registry_result.agent_id = "worker_b"
    /\ "worker_a" \in Listed(registry.capabilities_index, "execute_task")
    /\ "gather_context" \in DOMAIN registry.capabilities_index

\* C19: route_message fails when the receiver is not registered or is not
\* online; when it fails nothing is put in any mailbox and the failed counter
\* grows by one; when it succeeds exactly one envelope is appended to the
\* receiver's mailbox and the routed counter grows by one.
RoutingPreconditions ==
    [][ (registry_result'.op = "route" /\ registry' # registry)
        => LET receiver_id == registry_result'.agent_id
               failed == registry_result'.raised # "none"
           IN /\ ( receiver_id \notin DOMAIN registry.agents
                   \/ agent_status[registry.agents[receiver_id]] # "online" )
                     => failed
              /\ failed
                     => /\ mailbox' = mailbox
                        /\ registry'.failed_message_count
                               = registry.failed_message_count + 1
                        /\ registry'.total_messages_routed
                               = registry.total_messages_routed
              /\ ~ failed
                     => /\ registry'.total_messages_routed
                               = registry.total_messages_routed + 1
                        /\ registry'.failed_message_count
                               = registry.failed_message_count
                        /\ \E o \in AgentObjects :
                              /\ agent_pool[o].agent_id = receiver_id
                              /\ registry.agents[receiver_id] = o
                              /\ Len(mailbox'[o]) = Len(mailbox[o]) + 1
                              /\ SubSeq(mailbox'[o], 1, Len(mailbox[o])) = mailbox[o]
                              /\ mailbox'[o][Len(mailbox'[o])].receiver_id = receiver_id
                              /\ \A q \in AgentObjects \ {o} : mailbox'[q] = mailbox[q]
      ]_vars

\* an envelope was delivered, and a later one to an agent that is registered
\* but not online was refused
RoutingWitness ==
    /\ registry_result.op = "route"
    /\ registry_result.raised = "MessageRoutingError"
    /\ registry_result.cause = "Target agent is not online"
    /\ registry.total_messages_routed >= 1
    /\ registry.failed_message_count >= 1

\* C20: a mailbox never holds more than max_queue_size envelopes; a delivery
\* to a mailbox that holds max_queue_size envelopes fails with AgentBusyError
\* and leaves every mailbox as it was.
MailboxBackpressure ==
    [][ /\ \A o \in AgentObjects : Len(mailbox'[o]) <= agent_pool[o].max_queue_size
        /\ ( /\ registry_result'.op = "route"
             /\ registry' # registry
             /\ route_target(registry, agent_status, registry_result'.agent_id) = "none"
             /\ Len(mailbox[registry.agents[registry_result'.agent_id]])
                    = agent_pool[registry.agents[registry_result'.agent_id]].max_queue_size )
           => /\ registry_result'.cause = "AgentBusyError"
              /\ mailbox' = mailbox ]_vars

\* a delivery to a full mailbox was refused
MailboxBackpressureWitness ==
    /\ registry_result.op = "route"
    /\ registry_result.cause = "AgentBusyError"
    /\ \E o \in AgentObjects : Len(mailbox[o]) = agent_pool[o].max_queue_size

(***************************************************************************)
(* Properties of the agent runtime                                          *)
(***************************************************************************)
\* the registered agents a broadcast with this filter is meant for
BroadcastTargets(capability_filter) ==
    IF capability_filter = <<>> THEN DOMAIN registry.agents
    ELSE {agent_id \in DOMAIN registry.agents :
             /\ \A i \in 1..Len(capability_filter) :
                   capability_filter[i] \in Advertised(agent_id)
             /\ agent_status[registry.agents[agent_id]] = "online"}

Newest(o) == mailbox[o][Len(mailbox[o])]

\* the place of envelope id in the registry's record of a thread
Position(history, id) == CHOOSE i \in 1..Len(history) : history[i] = id

\* C21: two envelopes of one thread that the registry routed to the worker
\* are taken up by the worker in the order in which they were routed (the
\* order of the registry's history of the thread).
PerReceiverFifo ==
    \A i, j \in 1..Len(handled[Worker]) :
        LET first == handled[Worker][i].message
            second == handled[Worker][j].message
        IN /\ i < j
           /\ first.thread_id = second.thread_id
           => Position(registry.message_history[first.thread_id], first.id)
                < Position(registry.message_history[second.thread_id], second.id)

\* the worker has taken up two envelopes of one thread
PerReceiverFifoWitness ==
    \E i, j \in 1..Len(handled[Worker]) :
        /\ i < j
        /\ handled[Worker][i].message.thread_id
               = handled[Worker][j].message.thread_id

Enqueued(id) == \E i \in 1..Len(mailbox[Worker]) : mailbox[Worker][i].id = id

WasHandled(id) == \E i \in 1..Len(handled[Worker]) : handled[Worker][i].message.id = id

\* C22: while the worker stays online every envelope in its mailbox is
\* eventually taken and handled, whatever happened with earlier envelopes,
\* and the processing loop ends only when the worker is no longer online.
PoisonIsolation ==
    /\ \A n \in 1..MaxUuids :
           Enqueued(<< n >>)
               ~> (WasHandled(<< n >>) \/ agent_status[Worker] # "online")
    /\ [](loop[Worker] = "stopped" => agent_status[Worker] # "online")

\* the loop handled an envelope without trouble after an earlier handler
\* had raised and its error reply could not be sent
PoisonIsolationWitness ==
    /\ agent_status[Worker] = "online"
    /\ \E i, j \in 1..Len(handled[Worker]) :
          /\ i < j
          /\ handled[Worker][i].raised
          /\ handled[Worker][i].cause # "none"
          /\ handled[Worker][j].op = "process"
          /\ ~ handled[Worker][j].raised

\* C23: an envelope whose handler raises in the processing loop adds exactly
\* one to the worker's error_count, is not counted in processed_messages,
\* and makes the worker hand exactly one ERROR reply for the original sender
\* on the original thread to the registry.
HandlerFailureAccounting ==
    [][ /\ last_call' # last_call
        /\ last_call'.op = "process"
        /\ last_call'.raised
        => /\ error_count'[Worker] = error_count[Worker] + 1
           /\ processed_messages'[Worker] = processed_messages[Worker]
           /\ registry'.total_messages_routed + registry'.failed_message_count
                  = registry.total_messages_routed
                        + registry.failed_message_count + 1
           /\ last_call'.reply.message_type = "error"
           /\ last_call'.reply.receiver_id = last_call'.message.sender_id
           /\ last_call'.reply.thread_id = last_call'.message.thread_id ]_vars

\* C24: shutdown marks the worker offline only when its mailbox has been
\* drained, and when shutdown ends the worker is offline and its mailbox is
\* empty.
GracefulShutdown ==
    [][ /\ agent_status'[Worker] = "offline" /\ agent_status[Worker] # "offline"
            => mailbox[Worker] = <<>>
        /\ shutdown_pc[Worker] = "draining" /\ shutdown_pc'[Worker] # "draining"
            => /\ mailbox'[Worker] = <<>>
               /\ agent_status'[Worker] = "offline" ]_vars

\* C26: routing leaves id and thread_id of an envelope as they were; a reply
\* has an id of its own, the thread_id and correlation_id of the original,
\* the original's id as reply_to and the original's sender as receiver; and
\* no envelope has an empty id or thread_id.
EnvelopeIdentity ==
    [][ last_call' # last_call
        => /\ last_call'.op = "route"
               => LET message == last_call'.message
                  IN /\ message.id # NoId
                     /\ message.thread_id # NoId
                     /\ last_call'.cause = "none"
                         => /\ Newest(Worker)'.id = message.id
                            /\ Newest(Worker)'.thread_id = message.thread_id
           /\ last_call'.op \in {"process", "drain"} /\ last_call'.raised
               => LET message == last_call'.message
                      reply == last_call'.reply
                  IN /\ reply.id # NoId
                     /\ reply.thread_id # NoId
                     /\ reply.id # message.id
                     /\ reply.thread_id = message.thread_id
                     /\ reply.correlation_id = message.correlation_id
                     /\ reply.reply_to = message.id
                     /\ reply.receiver_id = message.sender_id
                     /\ last_call'.cause = "none"
                         => /\ Newest(Peer)'.id = reply.id
                            /\ Newest(Peer)'.thread_id = reply.thread_id ]_vars

\* the error reply to an envelope that carries a correlation_id reached the
\* mailbox of the envelope's sender
EnvelopeIdentityWitness ==
    /\ last_call.op = "process"
    /\ last_call.raised
    /\ last_call.cause = "none"
    /\ last_call.message.correlation_id # NoId
    /\ mailbox[Peer] # <<>>
    /\ Newest(Peer).id = last_call.reply.id

(***************************************************************************)
(* Properties of the task executor                                          *)
(***************************************************************************)
\* the executions in progress: the coroutines that have begun and not ended
InProgress == {coroutine \in executions : coroutine.begun}

\* C27: at any time at most max_concurrent_tasks task executions are in
\* progress, whatever execute_task and cancel_task commands arrive while
\* tasks run, and tasks are started in the order in which they arrived.
ConcurrencyLimit ==
    /\ Cardinality(InProgress) <= max_concurrent_tasks
    /\ \A i, j \in 1..Len(started) : i < j => started[i] < started[j]

\* C28: when a task execution ends, with the task logic returned or raised
\* and the outcome report sent or not, the executor starts the task at the
\* head of its queue if the concurrency limit leaves room for it.
QueueProgress ==
    [][ \A coroutine \in InProgress :
            /\ coroutine \notin executions'
            /\ task_queue # <<>>
            /\ Cardinality(current_tasks \ {coroutine.task_id})
                   < max_concurrent_tasks
            => /\ started' = Append(started, Head(task_queue))
               /\ Head(task_queue) \in current_tasks' ]_vars

\* C29: after a cancel_task command the task is neither in current_tasks
\* nor in the queue; if it was in current_tasks its status is cancelled; if
\* the executor did not hold it nothing has changed; and a task cancelled
\* while it was only queued is never among the started tasks.
CancelTask ==
    [][ /\ last_call'.op = "cancel_task" /\ uuids' # uuids
            => LET task_id == last_call'.message.id
               IN /\ task_id \notin current_tasks'
                  /\ task_id \notin SeqToSet(task_queue')
                  /\ task_id \in current_tasks
                      => task_status'[task_id] = TaskStatus_CANCELLED
                  /\ task_id \notin current_tasks \cup SeqToSet(task_queue)
                      => UNCHANGED executor_vars
        /\ \A task_id \in cancelled_queued' :
               task_id \notin SeqToSet(started') ]_vars

\* a task was cancelled while it waited in the queue, and the execution
\* before it has ended with its report sent and left nothing to start
CancelTaskWitness ==
    /\ cancelled_queued # {}
    /\ executions = {}
    /\ task_queue = <<>>
    /\ last_call.op = "end"
    /\ last_call.cause = "none"

(***************************************************************************)
(* Properties of the completion handler                                     *)
(***************************************************************************)
\* the steps that step sid of def waits for, directly or not
RECURSIVE Ancestors(_, _)
Ancestors(def, sid) ==
    LET direct == IF sid \in StepIdsOf(def)
                  THEN SeqToSet(StepOf(def, sid).dependencies) ELSE {}
    IN direct \cup UNION {Ancestors(def, d) : d \in direct}

Independent(def, s, t) ==
    /\ s # t
    /\ s \notin Ancestors(def, t)
    /\ t \notin Ancestors(def, s)

\* the task ids of ids that no task of the instances carries
Unused(workflows, ids) ==
    SelectSeq(ids, LAMBDA tid :
        \A w \in DOMAIN workflows : \A s \in DOMAIN workflows[w].agent_tasks :
            workflows[w].agent_tasks[s].task_id # tid)

\* what instance w looks like after the completions of the assignments
\* first and second were handled in this order: its status, the status of
\* every step's task, and how often each step was dispatched on the way
AfterCompletions(w, first, second) ==
    LET one == agent_task_complete(active_workflows, first.task_id,
                                   CHOOSE r \in ResultsOf(first.step_id) : TRUE,
                                   FreshTaskIds)
        two == agent_task_complete(one.workflows, second.task_id,
                                   CHOOSE r \in ResultsOf(second.step_id) : TRUE,
                                   Unused(one.workflows, FreshTaskIds))
        sent == one.sent \o two.sent
    IN [status |-> two.workflows[w].status,
        tasks |-> [s \in DOMAIN two.workflows[w].agent_tasks |->
                      two.workflows[w].agent_tasks[s].status],
        dispatched |-> [s \in AllStepIds |->
                           Cardinality({i \in 1..Len(sent) :
                                           sent[i].step_id = s})]]

\* C30: when two independent steps of a running instance are in flight, the
\* instance's status, the status of every step's task and the number of
\* dispatches of every step are the same whichever of the two completions
\* the orchestrator handles first.
OrderIndependence ==
    \A w \in Instances : \A a, b \in Outstanding(w) :
        /\ active_workflows[w].status = "running"
        /\ Independent(active_workflows[w].workflow_definition,
                       a.step_id, b.step_id)
        /\ active_workflows[w].agent_tasks[a.step_id].task_id = a.task_id
        /\ active_workflows[w].agent_tasks[b.step_id].task_id = b.task_id
        /\ Len(FreshTaskIds)
               >= 2 * active_workflows[w].workflow_definition.max_parallel_steps
        => AfterCompletions(w, a, b) = AfterCompletions(w, b, a)

(***************************************************************************)
(* Properties of the executor's outcome reports                             *)
(***************************************************************************)
\* the execution of task_id has just ended and this kind of outcome report
\* (payload status "completed" or "failed") has reached the orchestrator
Reported(task_id, kind) ==
    /\ last_call.op = "end"
    /\ last_call.message.id = task_id
    /\ last_call.cause = "none"
    /\ last_call.reply.payload = << task_id, kind >>

\* C38: the outcome report that reaches the orchestrator when an execution
\* ends has the kind of the task logic's outcome: a task whose logic
\* returned is not marked failed and not reported as failed, and a task
\* whose logic raised is not reported as completed.
FaithfulReport ==
    [][ \A coroutine \in InProgress :
            coroutine \notin executions'
            => LET task_id == coroutine.task_id
               IN IF last_call'.raised
                  THEN ~ Reported(task_id, "completed")'
                  ELSE /\ task_status'[task_id] # TaskStatus_FAILED
                       /\ ~ Reported(task_id, "failed")' ]_vars

\* the tasks cancelled while their execution was in progress: cancel_task
\* took them out of current_tasks and marked them, and their coroutine has
\* not ended
CancelledRunning ==
    {coroutine.task_id : coroutine \in InProgress} \cap
    {task_id \in DOMAIN task_status \ current_tasks :
        task_status[task_id] = TaskStatus_CANCELLED}

\* C39: a task cancelled while it ran keeps the status cancelled and is not
\* reported to the orchestrator as completed when its task logic returns.
CancellationFinal ==
    [][ \A task_id \in CancelledRunning :
            /\ task_status'[task_id] = TaskStatus_CANCELLED
            /\ ~ Reported(task_id, "completed")' ]_vars

(***************************************************************************)
(* Properties of the registry's audit trail                                 *)
(***************************************************************************)
\* how many envelopes of a sequence are on thread_id
OnThread(envelopes, thread_id) ==
    Cardinality({i \in 1..Len(envelopes) : envelopes[i].thread_id = thread_id})

\* the number of audit entries of thread_id in a registry
Audited(reg, thread_id) ==
    IF thread_id \in DOMAIN reg.message_history
    THEN Len(reg.message_history[thread_id]) ELSE 0

\* C33: a call of route_message adds as many audit entries to a thread (its
\* message_count) as envelopes on that thread were put into a mailbox: one
\* when the envelope was delivered, none when it was refused, also by a
\* full mailbox.
AuditTrail ==
    [][ registry_result'.op = "route"
        => \A thread_id \in DOMAIN registry'.message_history :
              Audited(registry', thread_id) - Audited(registry, thread_id)
                  = Cardinality({o \in AgentObjects :
                        OnThread(mailbox'[o], thread_id)
                            > OnThread(mailbox[o], thread_id)}) ]_vars

(***************************************************************************)
(* Properties of the orchestrator's loop and of its instances               *)
(***************************************************************************)
\* one turn of the orchestrator's process_messages: the envelope at the
\* head of the mailbox goes to its handler
TakeEnvelope ==
    \/ handle_orchestrate_workflow
    \/ handle_agent_task_complete
    \/ handle_agent_task_fail
    \/ handle_workflow_pause
    \/ handle_workflow_resume
    \/ handle_workflow_cancel

\* C35: while the retry delay of a failed task runs, the orchestrator can
\* take the envelope at the head of its mailbox and handle it.
ResponsiveDuringBackoff ==
    (sleeping # <<>> /\ message_queue # <<>>) => ENABLED TakeEnvelope

\* C32: an instance that has become completed or failed is no longer in the
\* orchestrator's set of active instances.
InstanceArchival ==
    \A w \in Instances : active_workflows[w].status \notin {"completed", "failed"}

\* the orchestrator is about to act on a worker's notification: one is at
\* the head of its mailbox, or the retry delay after a failure is running
OnNotification ==
    \/ sleeping # <<>>
    \/ /\ message_queue # <<>>
       /\ Head(message_queue).message_type
              \in {"agent_task_complete", "agent_task_fail"}

\* C34: handling a completion or failure notification sends no task
\* assignment for an instance whose status is completed, failed or
\* cancelled.
NoDispatchAfterTermination ==
    [][ OnNotification
        => \A a \in assigned' \ assigned :
              a.workflow_id \in Instances
              => active_workflows[a.workflow_id].status \notin Terminal ]_vars


(***************************************************************************)
(* The alert entry point (src/src/main.py)                                  *)
(***************************************************************************)
\* OrchestratedAlertTriageSystem.process_alert for the first alert of a run:
\* the start request is sent to the orchestrator's mailbox, and then the
\* start handler is called with the same request
process_alert ==
    \E ctx \in StartContexts :
        /\ active_workflows = EmptyDict
        /\ StartsQueued = 0
        /\ Len(message_queue) < MaxQueue
        /\ LET workflow_message ==
                   Envelope("orchestrate_workflow", "alert_triage", ctx, 0, 0, {})
               wid == NewWorkflowId
               created == create_workflow_execution("alert_triage", ctx)
               run == start_workflow_execution(created, wid, FreshTaskIds)
           IN /\ Len(FreshTaskIds)
                     >= ids_needed([created EXCEPT !.status = "running"])
              /\ message_queue' = Append(message_queue, workflow_message)
              /\ active_workflows' = (wid :> run.workflow) @@ active_workflows
              /\ Send(run.sent)
              /\ Respond(IF run.raised THEN "error" ELSE "success")
        /\ UNCHANGED << sleeping, control_count, retries_started, counting,
                        registry, agent_status, mailbox, registry_result, runtime_vars >>

\* one alert, every worker reports completion
NextAlert ==
    \/ process_alert
    \/ WorkerCompletes
    \/ handle_orchestrate_workflow
    \/ handle_agent_task_complete

SpecAlert == InitCounting /\ [][NextAlert]_vars

\* dispatches of the first step of the alert workflow, over all instances
FirstStepDispatches ==
    LET first == workflow_definitions["alert_triage"].steps[1].step_id
        RECURSIVE Sum(_)
        Sum(W) == IF W = {} THEN 0
                  ELSE LET w == CHOOSE v \in W : TRUE
                       IN send_count[w][first] + Sum(W \ {w})
    IN Sum(InstanceIds)

\* C37: one alert submitted through process_alert creates exactly one
\* instance and dispatches the first step exactly once, also after the
\* orchestrator's loop has emptied its mailbox.
OneStartOneInstance ==
    Instances # {}
        => /\ Cardinality(Instances) = 1
           /\ FirstStepDispatches = 1


(***************************************************************************)
(* The recovery scenario: the worker of step B fails its first two          *)
(* attempts and succeeds on the third, every other worker succeeds          *)
(***************************************************************************)
\* the attempt of step B that assignment a is: B's worker raises on it
FailsInRecovery(a) ==
    /\ a.step_id = "B"
    /\ send_count[a.workflow_id]["B"] <= 2

RecoveryWorkerFails ==
    \E a \in assigned :
        /\ FailsInRecovery(a)
        /\ WorkerFails
        /\ assigned' = assigned \ {a}

RecoveryWorkerCompletes ==
    \E a \in assigned :
        /\ ~ FailsInRecovery(a)
        /\ WorkerCompletes
        /\ assigned' = assigned \ {a}

NextRecovery ==
    \/ SubmitWorkflow
    \/ RecoveryWorkerFails
    \/ RecoveryWorkerCompletes
    \/ handle_orchestrate_workflow
    \/ handle_agent_task_complete
    \/ handle_agent_task_fail
    \/ retry_wake

SpecRecovery == InitCounting /\ [][NextRecovery]_vars

\* C31: in the recovery scenario an instance of the linear workflow
\* A -> B -> C (max_retries 3, base delay 1, exponential backoff) waits 1
\* before the first retry of B and 2 before the second, dispatches B three
\* times in all, and is completed only after B's third dispatch.
RecoveryScenario ==
    \A w \in Instances :
        active_workflows[w].workflow_definition = linear3_workflow
        => /\ send_count[w]["B"] <= 3
           /\ active_workflows[w].status = "completed"
                 => /\ send_count[w]["B"] = 3
                    /\ retries_started[w]["B"] = 2
           /\ \A i \in 1..Len(sleeping) :
                 sleeping[i].workflow_id = w
                 => sleeping[i].delay = Pow2(retries_started[w]["B"] - 1)


(***************************************************************************)
(* Heartbeats between the two registered workers                            *)
(***************************************************************************)
\* CoralAgent._handle_heartbeat of agent object o, when n values of uuid4
\* were returned before: the reply, what sending it leaves behind, and the
\* cause of the exception send_message raised ("none" when it was sent)
handle_heartbeat(net, status, o, message, n) ==
    LET heartbeat_response == create_reply(message, agent_pool[o].agent_id,
                                           "status", None, n)
        sent == send_message(net, status, o, heartbeat_response)
    IN [net |-> sent.net, reply |-> heartbeat_response, cause |-> sent.cause,
        drawn |-> 1]

\* CoralAgent._handle_error: the envelope is logged
handle_error(net, status, o, message, n) ==
    [net |-> net, reply |-> NoMessage, cause |-> "none", drawn |-> 0]

\* the handlers _setup_default_handlers registers
default_handler(net, status, o, message, n) ==
    IF message.message_type = "heartbeat"
    THEN handle_heartbeat(net, status, o, message, n)
    ELSE handle_error(net, status, o, message, n)

\* one of the two workers builds a HEARTBEAT for the other and sends it
heartbeat_send ==
    \E o \in {Worker, Peer}, thread_id \in KnownThreads,
       correlation_id \in {NoId, << "c" >>} :
        LET other == IF o = Worker THEN Peer ELSE Worker
            message == CoralMessage(NoId, agent_pool[o].agent_id,
                                    agent_pool[other].agent_id, "heartbeat",
                                    thread_id, "ping", NoId, correlation_id, uuids)
            sent == send_message(Net(registry, mailbox, error_count),
                                 agent_status, o, message)
        IN /\ uuids + 2 <= MaxUuids
           /\ uuids' = uuids + drawn(NoId, thread_id)
           /\ registry' = sent.net.registry
           /\ mailbox' = sent.net.mailbox
           /\ error_count' = sent.net.errors
           /\ registry_result' = NoResult
           /\ last_call' = Call("route", o, message, NoMessage, FALSE, sent.cause)
           /\ UNCHANGED << agent_status, orchestrator_vars, handled,
                           processed_messages, loop, shutdown_pc, executor_vars >>

\* main: asyncio.create_task(agent.process_messages()) for agent object o
start_processing(o) ==
    /\ loop[o] = "not started"
    /\ loop' = [loop EXCEPT ![o] = "running"]
    /\ UNCHANGED << orchestrator_vars, registry_vars, uuids, handled,
                    error_count, processed_messages, shutdown_pc, last_call,
                    executor_vars >>

\* one turn of the while loop of process_messages of agent object o, the
\* envelope going to a default handler
take_envelope(o) ==
    /\ loop[o] = "running"
    /\ agent_status[o] \in {"online", "busy"}
    /\ mailbox[o] # <<>>
    /\ LET message == Head(mailbox[o])
           h == default_handler(
                    Net(registry, [mailbox EXCEPT ![o] = Tail(@)], error_count),
                    agent_status, o, message, uuids)
           p == process_single_message(h.net, agent_status, o, message,
                                       h.cause # "none", uuids + h.drawn)
       IN /\ uuids + h.drawn + p.drawn <= MaxUuids
          /\ last_call' = Call("process", o, message, h.reply,
                               h.cause # "none", p.cause)
          /\ handled' = [handled EXCEPT ![o] = Append(@, last_call')]
          /\ uuids' = uuids + h.drawn + p.drawn
          /\ registry' = p.net.registry
          /\ mailbox' = p.net.mailbox
          /\ error_count' = IF p.propagates
                            THEN [p.net.errors EXCEPT ![o] = @ + 1]
                            ELSE p.net.errors
          /\ processed_messages' =
                 IF p.propagates THEN processed_messages
                 ELSE [processed_messages EXCEPT ![o] = @ + 1]
          /\ loop' = [loop EXCEPT ![o] = loop_after(p.propagates)]
    /\ registry_result' = NoResult
    /\ UNCHANGED << agent_status, orchestrator_vars, shutdown_pc, executor_vars >>

NextHeartbeat ==
    \/ heartbeat_send
    \/ \E o \in {Worker, Peer} : start_processing(o)
    \/ \E o \in {Worker, Peer} : take_envelope(o)

SpecHeartbeat == InitBroadcast /\ [][NextHeartbeat]_vars

\* C36: a heartbeat exchange quiesces: when a worker handles an envelope
\* that is itself the reply to a HEARTBEAT, no further envelope is sent,
\* so no other agent's mailbox grows.
HeartbeatQuiesces ==
    [][ \A o \in {Worker, Peer} :
            ( /\ Len(handled'[o]) > Len(handled[o])
              /\ last_call'.message.message_type = "heartbeat"
              /\ last_call'.message.reply_to # NoId )
            => \A q \in AgentObjects \ {o} :
                  Len(mailbox'[q]) <= Len(mailbox[q]) ]_vars

====
